---- MODULE Spec2Model ----
(***************************************************************************)
(* Chorus (azeebneuron/Chorus): the agent loop (createAgent.run and        *)
(* executeToolCall) and the built-in conductors (sequential, parallel,     *)
(* hierarchical, debate, voting) with the shared runAgent / checkAbort     *)
(* substrate.                                                              *)
(*                                                                         *)
(* Two specifications share the variable tuple:                            *)
(*   Spec           one agent run (createAgent.run), started by Init;      *)
(*   ConductorSpec  one orchestrate() call of a built-in conductor.        *)
(* Each leaves the other component's variables at their idle values.       *)
(***************************************************************************)
EXTENDS Integers, Sequences, FiniteSets, TLC

VARIABLES
    \* ---- one agent run (createAgent.run) ----
    maxIterations,  \* const maxIterations = config.maxIterations ?? DEFAULT
    maxInputLength, \* config.maxInputLength, <<>> when it is not set
    tools,          \* names of config.tools
    aborted,        \* options.signal.aborted
    messages,       \* state.messages
    iteration,      \* state.iteration
    done,           \* state.done
    pc,             \* position of run(): "loop" "generate" "tools" "returned" "failed"
    toolCalls,      \* toolCalls of the assistant message being dispatched
    toolIdx,        \* position of the for..of loop over toolCalls
    error,          \* what run() threw: "none" "backend" "aborted"
    onErrorCalls,   \* number of times hooks.onError was fired
    generateCalls,  \* number of provider.generate calls issued
    finishLog,      \* per generate response: finish reason and index of its message
    execLog,        \* per executeToolCall: the call, its outcome, index of its message
    result,         \* the AgentResult returned by run()
    \* ---- one orchestrate() call of a built-in conductor ----
    config,         \* the conductor's config (strategy and its parameters)
    signal,         \* options.signal.aborted
    trace,          \* trace.steps
    ensemble,       \* ensemble.run: are options.hooks its hooks, and its trace.steps
    beforeAgent,    \* the onBeforeAgent hook firings: [agentId, input]
    configHooks,    \* the events that the hooks of config.hooks received
    cpc,            \* position of orchestrate()
    pos,            \* position of the current for..of loop
    agentResults,   \* agentResults: Map of agent id -> response, in insertion order
    cerror,         \* what orchestrate() threw, "none" while it has not
    response,       \* response of the EnsembleResult returned
    currentInput,   \* sequential: currentInput
    transformLog,   \* sequential: the config.transform calls: [output, role]
    voting,         \* voting: generatedOptions, votingOptions, votes
    debate,         \* debate: round, allStatements, roundStatements, votes, roundLog
    manager,        \* hierarchical: the manager's agent loop and delegations
    executing,      \* parallel: the promises of runWithConcurrencyLimit
    errors,         \* parallel: errors
    \* ---- usage accounting of agent runs and of an ensemble result ----
    upc,            \* "idle", "run" while an agent runs, "done" after the ensemble result
    usageId,        \* id of the agent that is running
    usageLog,       \* response.usage of each backend response of the run
    totalUsage,     \* totalUsage of the run
    usageResults,   \* agentResults: Map of agent id -> result.usage
    ensembleUsage,  \* usage of the EnsembleResult, <<>> before there is one
    usageSteps,     \* output.usage of the trace step of each run that returned
    \* ---- collectVote's parsing and tallyVotes, on their own ----
    ballot,         \* pc, options, cfg, the responses, the votes, the result
    \* ---- two shared contexts (createContext) ----
    ctx,            \* slots, shared, cloned, snap, ops, nextMessage, lastOp
    \* ---- the handoff tool's execute (createHandoffTool) ----
    handoff,        \* pc, targets, the request in flight, the calls made
    \* ---- one call of a handoff chain (createHandoffChain) ----
    chain,          \* pc, agents, handoffs, currentInput, currentAgentIndex, result
    \* ---- one executeToolCall, with arguments, hooks and error messages ----
    toolcall        \* pc, call, hooks, events, result, thrown, message

agentVars == <<maxIterations, maxInputLength, tools, aborted, messages, iteration, done, pc,
               toolCalls, toolIdx, error, onErrorCalls, generateCalls,
               finishLog, execLog, result>>

coreVars == <<config, signal, trace, ensemble, beforeAgent, configHooks, cpc, pos,
              agentResults, cerror, response>>
seqVars == <<currentInput, transformLog>>
voteVars == <<voting>>
debVars == <<debate>>
hierVars == <<manager>>
parVars == <<executing, errors>>

condVars == <<coreVars, seqVars, voteVars, debVars, hierVars, parVars>>

usageVars == <<upc, usageId, usageLog, totalUsage, usageResults,
               ensembleUsage, usageSteps>>

\* state of the library parts that are checked on their own
libVars == <<ballot, ctx, handoff, chain, toolcall>>

vars == <<agentVars, condVars, usageVars, libVars>>

----------------------------------------------------------------------------
\* Bounds of the model

\* largest configured maxIterations explored
MaxIter == 2
\* largest number of tool calls in one assistant message
MaxCalls == 2

----------------------------------------------------------------------------
\* Values

DEFAULT_MAX_ITERATIONS == 10

Undefined == "undefined"
Null == <<"null">>
Str(s) == <<"str", s>>

\* JSON.stringify({ error: msg })
JsonError(msg) == <<"json", "error", msg>>
\* JSON.stringify(v) of a non-string tool result
JsonValue(v) == <<"json", "value", v>>

\* typeof v === "string"
IsString(v) == DOMAIN v = 1..2 /\ v[1] = "str"

IsJsonErrorObject(c) == Len(c) = 3 /\ c[1] = "json" /\ c[2] = "error"

\* names the backend may ask for: get_weather is the tool an agent may have
ToolNames == {"get_weather", "nonexistent_tool"}
FinishReasons == {"stop", "tool_calls", "length", "error"}
Contents == {Null, Str("text")}

\* the id the backend gives the i-th tool call of a message
CallId(i) == "call_" \o ToString(i)

\* Message variants (types/message.ts), one record shape for all four roles
SystemMessage(c) ==
    [role |-> "system", content |-> c, toolCalls |-> <<>>, toolCallId |-> Undefined]
UserMessage(c) ==
    [role |-> "user", content |-> c, toolCalls |-> <<>>, toolCallId |-> Undefined]
AssistantMessage(c, tcs) ==
    [role |-> "assistant", content |-> c, toolCalls |-> tcs, toolCallId |-> Undefined]
ToolMessage(id, c) ==
    [role |-> "tool", content |-> c, toolCalls |-> <<>>, toolCallId |-> id]

\* what tool.execute (with its before/after hooks) does for one call
ToolOutcomes == {"returns", "throws"}

\* the value tool.execute returns: get_weather yields { temp: 72 }
ToolResult(name) == [temp |-> 72]

\* ToolCall = { id, name, arguments }: the calls of one assistant message
ToolCallLists ==
    UNION {{[i \in 1..k |-> [id |-> CallId(i), name |-> names[i]]] :
                names \in [1..k -> ToolNames]} : k \in 0..MaxCalls}

\* GenerateResponse = { message, finishReason }: tool calls come with the
\* tool_calls finish reason (an empty list is what `?? []` yields)
GenerateResponses ==
    [finishReason : {"tool_calls"}, content : Contents,
     toolCalls : ToolCallLists]
    \cup
    [finishReason : FinishReasons \ {"tool_calls"}, content : Contents,
     toolCalls : {<<>>}]

\* config.maxIterations as configured; left unset it resolves to
\* DEFAULT_MAX_ITERATIONS, which lies beyond the explored bound
ConfigMaxIterations == {<<n>> : n \in 0..MaxIter}
ConfigTools == {{}, {"get_weather"}}

NoResult == [response |-> Undefined, messages |-> <<>>, iterations |-> -1]

----------------------------------------------------------------------------
\* createAgent

\* config.maxIterations ?? DEFAULT_MAX_ITERATIONS
\* (an optional number is <<>> when unset and <<n>> when set)
ResolveMaxIterations(cfg) ==
    IF cfg = <<>> THEN DEFAULT_MAX_ITERATIONS ELSE cfg[1]

\* while (!state.done && state.iteration < maxIterations)
LoopCond == ~done /\ iteration < maxIterations

\* a signal that is never consulted
SignalAborted_ignored == FALSE

\* options?.signal?.aborted
SignalAborted == aborted

\* a dispatch loop that walks the calls from the last to the first
CurrentToolCall_reversed(calls, idx) == calls[Len(calls) + 1 - idx]

\* for (const toolCall of toolCalls): the call of the idx-th turn
CurrentToolCall(calls, idx) == calls[idx]

\* a lookup failure reported as plain text and a thrown error as its message
executeToolCall_plainText(tc, registered, outcome) ==
    IF tc.name \notin registered
    THEN ToolMessage(tc.id, Str("not found"))
    ELSE IF outcome = "throws"
    THEN ToolMessage(tc.id, Str("threw"))
    ELSE ToolMessage(tc.id, JsonValue(ToolResult(tc.name)))

\* a tool message keyed by the tool's name instead of the call's id
executeToolCall_byName(tc, registered, outcome) ==
    IF tc.name \notin registered
    THEN ToolMessage(tc.name, JsonError("not found"))
    ELSE IF outcome = "throws"
    THEN ToolMessage(tc.name, JsonError("threw"))
    ELSE ToolMessage(tc.name, JsonValue(ToolResult(tc.name)))

\* executeToolCall(ctx, toolCall, hooks): the tool message for one call
executeToolCall(tc, registered, outcome) ==
    IF tc.name \notin registered
    THEN ToolMessage(tc.id, JsonError("not found"))
    ELSE IF outcome = "throws"
    THEN ToolMessage(tc.id, JsonError("threw"))
    ELSE IF IsString(ToolResult(tc.name))
    THEN ToolMessage(tc.id, ToolResult(tc.name))
    ELSE ToolMessage(tc.id, JsonValue(ToolResult(tc.name)))

\* index of the last assistant message of msgs, 0 when there is none
LastAssistantIndex(msgs) ==
    LET idx == {i \in DOMAIN msgs : msgs[i].role = "assistant"}
    IN  IF idx = {} THEN 0 ELSE CHOOSE i \in idx : \A j \in idx : j <= i

\* content ?? ""
ContentOrEmpty(c) == IF c = Null THEN Str("") ELSE c

\* a response taken from the last assistant message wherever it stands
FinalResponse_lastAssistant(msgs) ==
    IF LastAssistantIndex(msgs) = 0 THEN Str("")
    ELSE ContentOrEmpty(msgs[LastAssistantIndex(msgs)].content)

\* the response computed after the loop
FinalResponse(msgs) ==
    IF Len(msgs) > 0 /\ msgs[Len(msgs)].role = "assistant"
    THEN (IF msgs[Len(msgs)].content = Null THEN Str("")
          ELSE msgs[Len(msgs)].content)
    ELSE Str("")

\* the locals of the strategies, as orchestrate() declares them
LocalsInit ==
    /\ currentInput = <<"str", "input">>
    /\ transformLog = <<>>
    /\ voting = [generatedOptions |-> <<>>, votingOptions |-> <<>>,
                 votes |-> <<>>]
    /\ debate = [round |-> 0, allStatements |-> <<>>, roundStatements |-> <<>>,
                 votes |-> <<>>, roundLog |-> <<>>]
    /\ manager = [iteration |-> 0, done |-> FALSE, calls |-> <<>>, call |-> 1,
                  delegations |-> 0, last |-> <<"str", "">>, step |-> 0,
                  results |-> <<>>]
    /\ executing = <<>>
    /\ errors = <<>>

\* no orchestrate() call is under way
CondIdle ==
    /\ config = [strategy |-> "none"]
    /\ signal = FALSE
    /\ trace = <<>>
    /\ ensemble = [hooks |-> "none", steps |-> <<>>]
    /\ beforeAgent = <<>>
    /\ configHooks = <<>>
    /\ cpc = "idle"
    /\ pos = 1
    /\ agentResults = <<>>
    /\ cerror = "none"
    /\ response = Null
    /\ LocalsInit

\* the usage triple a run starts from
ZeroUsage == [promptTokens |-> 0, completionTokens |-> 0, totalTokens |-> 0]

\* no usage is being accounted
UsageIdle ==
    /\ upc = "idle"
    /\ usageId = ""
    /\ usageLog = <<>>
    /\ totalUsage = ZeroUsage
    /\ usageResults = <<>>
    /\ ensembleUsage = <<>>
    /\ usageSteps = <<>>

\* no ballot is being parsed or tallied
BallotIdle ==
    ballot = [pc |-> "idle", options |-> <<>>, cfg |-> <<>>,
              responses |-> <<>>, votes |-> <<>>, result |-> <<>>]

\* a context that was not created
NoContext ==
    [live |-> FALSE, data |-> <<>>, history |-> <<>>, agentMessages |-> <<>>,
     maxHistory |-> 0, log |-> <<>>]

\* no context is in use
CtxIdle ==
    ctx = [slots |-> <<NoContext, NoContext>>, shared |-> FALSE, cloned |-> FALSE, snap |-> <<>>,
           ops |-> 0, nextMessage |-> 0,
           lastOp |-> [name |-> "none", target |-> 0]]

\* no handoff tool is in use
HandoffIdle ==
    handoff = [pc |-> "idle", targets |-> <<>>, request |-> <<>>,
               calls |-> <<>>]

\* no handoff chain is in use
ChainIdle ==
    chain = [pc |-> "idle", agents |-> <<>>, handoffs |-> <<>>,
             currentInput |-> Null, currentAgentIndex |-> 0,
             result |-> <<>>]

\* no tool call is looked at on its own
ToolCallIdle ==
    toolcall = [pc |-> "idle", call |-> <<>>, hooks |-> <<>>, events |-> <<>>,
                result |-> <<>>, thrown |-> <<>>, message |-> <<>>]

\* the library parts are not in use
LibIdle ==
    BallotIdle /\ CtxIdle /\ HandoffIdle /\ ChainIdle /\ ToolCallIdle

\* the state in which run(input) enters its loop
RunBegins(input) ==
    /\ messages = <<SystemMessage(Str("systemPrompt")), UserMessage(input)>>
    /\ iteration = 0
    /\ done = FALSE
    /\ pc = "loop"
    /\ toolCalls = <<>>
    /\ toolIdx = 1
    /\ error = "none"
    /\ onErrorCalls = 0
    /\ generateCalls = 0
    /\ finishLog = <<>>
    /\ execLog = <<>>
    /\ result = NoResult

Init ==
    /\ maxIterations \in {ResolveMaxIterations(c) : c \in ConfigMaxIterations}
    /\ maxInputLength = <<>>
    /\ tools \in ConfigTools
    /\ aborted \in BOOLEAN
    /\ RunBegins(Str("input"))
    /\ CondIdle
    /\ UsageIdle
    /\ LibIdle

\* the default of options.maxLength in validateInput
DEFAULT_MAX_INPUT_LENGTH == 100000

\* validateInput(input, { maxLength }) of validation.ts: the input must be
\* a string, not empty and at most maxLength characters long
validateInput(input, maxLength) ==
    LET limit == IF maxLength = <<>> THEN DEFAULT_MAX_INPUT_LENGTH
                 ELSE maxLength[1]
    IN  IF ~IsString(input)
        THEN [valid |-> FALSE, error |-> "Input must be a string"]
        ELSE IF Len(input[2]) = 0
        THEN [valid |-> FALSE, error |-> "Input cannot be empty"]
        ELSE IF Len(input[2]) > limit
        THEN [valid |-> FALSE, error |-> "Input exceeds maximum length"]
        ELSE [valid |-> TRUE, error |-> "none"]

\* the inputs of run: within every limit, beyond the configured limit, empty
RunInputs == {Str("input"), Str("a long input"), Str("")}

\* config.maxInputLength as configured
ConfigMaxInputLength == {<<>>, <<5>>}

\* an agent run whose input and config.maxInputLength vary
InputInit ==
    /\ maxIterations \in {ResolveMaxIterations(c) : c \in ConfigMaxIterations}
    /\ maxInputLength \in ConfigMaxInputLength
    /\ tools \in ConfigTools
    /\ aborted \in BOOLEAN
    /\ \E input \in RunInputs : RunBegins(input)
    /\ CondIdle
    /\ UsageIdle
    /\ LibIdle

\* controller.abort() by the caller, at any suspension point of the run
Abort ==
    /\ pc \in {"generate", "tools"}
    /\ ~aborted
    /\ aborted' = TRUE
    /\ UNCHANGED <<maxIterations, maxInputLength, tools, messages, iteration, done, pc,
                   toolCalls, toolIdx, error, onErrorCalls, generateCalls,
                   finishLog, execLog, result>>
    /\ UNCHANGED <<condVars, usageVars, libVars>>

\* top of the loop, signal aborted: throw new Error("Agent execution aborted")
LoopAbort ==
    /\ pc = "loop"
    /\ LoopCond
    /\ SignalAborted
    /\ pc' = "failed"
    /\ error' = "aborted"
    /\ UNCHANGED <<maxIterations, maxInputLength, tools, aborted, messages, iteration, done,
                   toolCalls, toolIdx, onErrorCalls, generateCalls,
                   finishLog, execLog, result>>
    /\ UNCHANGED <<condVars, usageVars, libVars>>

\* top of the loop: state.iteration++, onBeforeGenerate, provider.generate(...)
LoopEnter ==
    /\ pc = "loop"
    /\ LoopCond
    /\ ~SignalAborted
    /\ iteration' = iteration + 1
    /\ generateCalls' = generateCalls + 1
    /\ pc' = "generate"
    /\ UNCHANGED <<maxIterations, maxInputLength, tools, aborted, messages, done,
                   toolCalls, toolIdx, error, onErrorCalls,
                   finishLog, execLog, result>>
    /\ UNCHANGED <<condVars, usageVars, libVars>>

\* provider.generate resolves: push the message, then branch on finishReason
GenerateReturns ==
    /\ pc = "generate"
    /\ \E r \in GenerateResponses :
        /\ messages' = Append(messages, AssistantMessage(r.content, r.toolCalls))
        /\ finishLog' = Append(finishLog,
                               [finishReason |-> r.finishReason,
                                index |-> Len(messages) + 1])
        /\ IF r.finishReason = "tool_calls"
           THEN /\ toolCalls' = r.toolCalls
                /\ toolIdx' = 1
                /\ pc' = "tools"
                /\ done' = done
           ELSE /\ done' = TRUE
                /\ pc' = "loop"
                /\ UNCHANGED <<toolCalls, toolIdx>>
    /\ UNCHANGED <<maxIterations, maxInputLength, tools, aborted, iteration, error,
                   onErrorCalls, generateCalls, execLog, result>>
    /\ UNCHANGED <<condVars, usageVars, libVars>>

\* provider.generate rejects: catch, state.error, onError, rethrow
GenerateThrows ==
    /\ pc = "generate"
    /\ error' = "backend"
    /\ onErrorCalls' = onErrorCalls + 1
    /\ pc' = "failed"
    /\ UNCHANGED <<maxIterations, maxInputLength, tools, aborted, messages, iteration, done,
                   toolCalls, toolIdx, generateCalls, finishLog, execLog,
                   result>>
    /\ UNCHANGED <<condVars, usageVars, libVars>>

\* one turn of `for (const toolCall of toolCalls)`: executeToolCall + push
DispatchTool ==
    /\ pc = "tools"
    /\ toolIdx <= Len(toolCalls)
    /\ \E outcome \in ToolOutcomes :
        LET toolCall == CurrentToolCall(toolCalls, toolIdx)
            toolResult == executeToolCall(toolCall, tools, outcome)
        IN  /\ messages' = Append(messages, toolResult)
            /\ execLog' = Append(execLog,
                                 [call |-> toolCall,
                                  failed |-> (toolCall.name \notin tools
                                              \/ outcome = "throws"),
                                  index |-> Len(messages) + 1,
                                  generation |-> generateCalls])
    /\ toolIdx' = toolIdx + 1
    /\ UNCHANGED <<maxIterations, maxInputLength, tools, aborted, iteration, done, pc,
                   toolCalls, error, onErrorCalls, generateCalls,
                   finishLog, result>>
    /\ UNCHANGED <<condVars, usageVars, libVars>>

\* the for..of loop is exhausted: back to the top of the while loop
ToolsDone ==
    /\ pc = "tools"
    /\ toolIdx > Len(toolCalls)
    /\ pc' = "loop"
    /\ UNCHANGED <<maxIterations, maxInputLength, tools, aborted, messages, iteration, done,
                   toolCalls, toolIdx, error, onErrorCalls, generateCalls,
                   finishLog, execLog, result>>
    /\ UNCHANGED <<condVars, usageVars, libVars>>

\* the while condition is false: compute response and return the AgentResult
Return ==
    /\ pc = "loop"
    /\ ~LoopCond
    /\ result' = [response |-> FinalResponse(messages),
                  messages |-> messages,
                  iterations |-> iteration]
    /\ pc' = "returned"
    /\ UNCHANGED <<maxIterations, maxInputLength, tools, aborted, messages, iteration, done,
                   toolCalls, toolIdx, error, onErrorCalls, generateCalls,
                   finishLog, execLog>>
    /\ UNCHANGED <<condVars, usageVars, libVars>>

Next ==
    \/ Abort
    \/ LoopAbort
    \/ LoopEnter
    \/ GenerateReturns
    \/ GenerateThrows
    \/ DispatchTool
    \/ ToolsDone
    \/ Return

Spec == Init /\ [][Next]_vars

InputSpec == InputInit /\ [][Next]_vars

----------------------------------------------------------------------------
\* Conductors: base utilities (conductor/base.ts)

\* longest config.order / config.agents / config.debaters / config.voters
MaxOrder == 2

\* the registered agent roles, in registration order
Agents == <<"a", "b", "c">>
RegisteredIds == {Agents[i] : i \in DOMAIN Agents}
\* an id that is registered nowhere
GhostId == "ghost"

\* the input of orchestrate()
Input == Str("input")
\* what an agent may answer
Responses == {Str("i agree"), Str("i object")}

\* an optional id list of a config: unset, or up to MaxOrder ids
IdLists == UNION {[1..k -> RegisteredIds \cup {GhostId}] : k \in 0..MaxOrder}

\* config.transform(output, nextAgent), an arbitrary function of both
Transform(output, role) == <<"transform", output, role>>

\* findAgent(agents, id) !== undefined
IsRegistered(id) == id \in RegisteredIds

\* ids.map((id) => findAgent(agents, id)).filter((a) => a !== undefined)
FindAll(ids) == SelectSeq(ids, IsRegistered)

\* checkAbort(signal): does it throw
checkAbort == signal

\* who supplied options.hooks: ensemble.run passes its own three hooks, a
\* caller of orchestrate() passes any hooks
HookSources == {"ensemble", "caller"}

\* the step pushed with its position counted from one
EnsembleBeforeAgent_oneBased(steps, id, in) ==
    Append(steps, [index |-> Len(steps) + 1, agentId |-> id, input |-> in,
                   output |-> Null, error |-> FALSE, duration |-> FALSE])

\* the onBeforeAgent hook of ensemble.run: a step is pushed on its trace
EnsembleBeforeAgent(steps, id, in) ==
    Append(steps, [index |-> Len(steps), agentId |-> id, input |-> in,
                   output |-> Null, error |-> FALSE, duration |-> FALSE])

\* trace.steps.find(pred), given the positions of the steps that satisfy
\* pred: the first of them, 0 when there is none
FindStep(matching) ==
    IF matching = {} THEN 0
    ELSE CHOOSE i \in matching : \A j \in matching : i <= j

\* the onAfterAgent hook of ensemble.run: the first step of that agent
\* without an output takes the result
EnsembleAfterAgent(steps, id, r) ==
    LET i == FindStep({k \in DOMAIN steps : /\ steps[k].agentId = id
                                            /\ steps[k].output = Null})
    IN  IF i = 0 THEN steps
        ELSE [steps EXCEPT ![i] = [@ EXCEPT !.output = r, !.duration = TRUE]]

\* the onAgentError hook of ensemble.run: the first step of that agent
\* without an output and without an error takes the error
EnsembleAgentError(steps, id) ==
    LET i == FindStep({k \in DOMAIN steps : /\ steps[k].agentId = id
                                            /\ steps[k].output = Null
                                            /\ ~steps[k].error})
    IN  IF i = 0 THEN steps
        ELSE [steps EXCEPT ![i] = [@ EXCEPT !.error = TRUE, !.duration = TRUE]]

\* options.hooks fire: the hooks of ensemble.run keep its trace
\* config.hooks?.onStart and config.hooks?.onComplete, awaited by orchestrate
ConfigHooksFire(event) == configHooks' = Append(configHooks, event)

HooksFire(steps) ==
    ensemble' = IF ensemble.hooks = "ensemble"
                THEN [ensemble EXCEPT !.steps = steps]
                ELSE ensemble

\* runAgent, up to its first await: the step is recorded, onBeforeAgent fires.
\* In runAgent, hooks is what the conductor passed as hooks: options?.hooks;
\* the hooks of config.hooks are not handed to it.
RunAgentStart(id, in) ==
    /\ trace' = Append(trace, [index |-> Len(trace), agentId |-> id,
                               input |-> in, status |-> "running",
                               output |-> Null, error |-> FALSE,
                               duration |-> FALSE])
    /\ beforeAgent' = Append(beforeAgent, [agentId |-> id, input |-> in])
    /\ HooksFire(EnsembleBeforeAgent(ensemble.steps, id, in))

\* a step of trace.steps: status is how runAgent ended for it ("running"
\* until then), error and duration tell whether step.error and
\* step.duration are set

\* runAgent, agent.run resolved: step.output and step.duration are set
\* (onAfterAgent fires)
RunAgentOutput(step, r) ==
    /\ trace' = [trace EXCEPT ![step] = [@ EXCEPT !.status = "output",
                                                  !.output = r,
                                                  !.duration = TRUE]]
    /\ HooksFire(EnsembleAfterAgent(ensemble.steps, trace[step].agentId, r))

\* runAgent, agent.run rejected: the catch sets step.error and step.duration
\* (onAgentError fires) and rethrows
RunAgentError(step) ==
    /\ trace' = [trace EXCEPT ![step] = [@ EXCEPT !.status = "error",
                                                  !.error = TRUE,
                                                  !.duration = TRUE]]
    /\ HooksFire(EnsembleAgentError(ensemble.steps, trace[step].agentId))

\* runAgent, agent.run resolved with r and step.output was set, then
\* onAfterAgent threw inside the try: the catch sets step.error as well.
\* The hooks of ensemble.run do not throw
RunAgentHookThrows(step, r) ==
    /\ ensemble.hooks = "caller"
    /\ trace' = [trace EXCEPT ![step] = [@ EXCEPT !.status = "error",
                                                  !.output = r,
                                                  !.error = TRUE,
                                                  !.duration = TRUE]]
    /\ UNCHANGED ensemble

\* runAgent rejects: the agent threw, or it returned one of outs and the
\* onAfterAgent hook threw
RunAgentRejects(step, outs) ==
    \/ RunAgentError(step)
    \/ \E r \in outs : RunAgentHookThrows(step, r)

\* the errors agent.run may reject with: its own failure, or the
\* cancellation it observed on the signal handed to it
AgentErrors == IF signal THEN {"agent failed", "aborted"} ELSE {"agent failed"}

\* agentResults.set(id, result): a Map keeps the position of a known key
SetResult(results, id, r) ==
    IF \E i \in DOMAIN results : results[i].id = id
    THEN [i \in DOMAIN results |->
             IF results[i].id = id THEN [id |-> id, response |-> r]
             ELSE results[i]]
    ELSE Append(results, [id |-> id, response |-> r])

----------------------------------------------------------------------------
\* Sequential strategy (conductor/strategies/sequential.ts)

SequentialConfigs ==
    [strategy : {"sequential"}, order : {<<>>} \cup {<<o>> : o \in IdLists},
     transform : BOOLEAN]

\* config.order ?? agents.map((a) => a.id)
ExecutionOrder(cfg) == IF cfg.order = <<>> THEN Agents ELSE cfg.order[1]

\* a transform applied whenever one is configured
ShouldTransform_always(cfg, results) == cfg.transform

\* config.transform && agentResults.size > 0
ShouldTransform(cfg, results) == cfg.transform /\ Len(results) > 0

----------------------------------------------------------------------------
\* Voting strategy (conductor/strategies/voting.ts)

\* config.voters, config.quorum (a fraction <<num, den>>), config.options:
\* each optional, <<>> when unset
VotingConfigs ==
    [strategy : {"voting"},
     voters : {<<>>, <<<<"a", "b">>>>, <<<<"a", GhostId>>>>},
     quorum : {<<>>, <<<<1, 1>>>>, <<<<3, 2>>>>},
     options : {<<>>, <<<<Str("red"), Str("blue")>>>>, <<<<Str("red")>>>>,
                <<<<Str("red"), Str("red")>>>>},
     method : {"majority"},
     weights : {<<>>}]

\* what a voter may answer when asked for the number of its choice
VoteAnswers == {Str("1"), Str("2"), Str("7"), Str("no number")}

\* config.voters ?? agents.map((a) => a.id), resolved with findAgent
Voters(cfg) == FindAll(IF cfg.voters = <<>> THEN Agents ELSE cfg.voters[1])

\* config.quorum ?? 0.5
Quorum(cfg) == IF cfg.quorum = <<>> THEN <<1, 2>> ELSE cfg.quorum[1]

\* Math.ceil(voters.length * quorum)
MinVoters(n, q) == (n * q[1] + q[2] - 1) \div q[2]

\* responseText.match(/(\d+)/), parseInt: <<>> when there is no match
FirstInteger(text) ==
    IF text = Str("1") THEN <<1>>
    ELSE IF text = Str("2") THEN <<2>>
    ELSE IF text = Str("7") THEN <<7>>
    ELSE <<>>

Max2(a, b) == IF a >= b THEN a ELSE b
Min2(a, b) == IF a <= b THEN a ELSE b

\* collectVote, single choice: the option the response text stands for
ParseChoice(text, options) ==
    LET match == FirstInteger(text)
        choiceIndex == IF match # <<>> THEN match[1] - 1 ELSE 0
        validIndex == Max2(0, Min2(choiceIndex, Len(options) - 1))
    IN  IF validIndex + 1 \in DOMAIN options THEN options[validIndex + 1]
        ELSE Str("")

\* counts of tallyVotes (no weights): the choices in first-vote order
ChoicesInOrder(votes) ==
    LET first(i) == \A j \in 1..(i - 1) : votes[j].choice # votes[i].choice
        picked == SelectSeq([i \in DOMAIN votes |-> <<i, first(i)>>],
                            LAMBDA e : e[2])
    IN  [k \in DOMAIN picked |-> votes[picked[k][1]].choice]

CountOf(votes, choice) ==
    Cardinality({i \in DOMAIN votes : votes[i].choice = choice})

\* config.weights?.get(agentId) ?? 1
WeightOf(cfg, agentId) ==
    IF cfg.weights = <<>> THEN 1
    ELSE IF agentId \in DOMAIN cfg.weights[1] THEN cfg.weights[1][agentId]
    ELSE 1

\* counts.get(choice): the summed weights of the votes for a choice
RECURSIVE WeightedCount(_, _, _)
WeightedCount(votes, choice, cfg) ==
    IF votes = <<>> THEN 0
    ELSE LET v == votes[Len(votes)]
             front == SubSeq(votes, 1, Len(votes) - 1)
         IN  WeightedCount(front, choice, cfg)
                + (IF v.choice = choice THEN WeightOf(cfg, v.agentId) ELSE 0)

\* votes.reduce((sum, v) => sum + weight(v), 0)
RECURSIVE TotalWeight(_, _)
TotalWeight(votes, cfg) ==
    IF votes = <<>> THEN 0
    ELSE TotalWeight(SubSeq(votes, 1, Len(votes) - 1), cfg)
            + WeightOf(cfg, votes[Len(votes)].agentId)

\* a tally that lets the last choice among the highest counts win
HighestCount_last(votes, options, cfg) ==
    LET keys == ChoicesInOrder(votes)
        best == {k \in DOMAIN keys :
                    /\ WeightedCount(votes, keys[k], cfg) > 0
                    /\ \A j \in DOMAIN keys :
                          /\ WeightedCount(votes, keys[j], cfg)
                                <= WeightedCount(votes, keys[k], cfg)
                          /\ j > k => WeightedCount(votes, keys[j], cfg)
                                          < WeightedCount(votes, keys[k], cfg)}
        winner == IF best = {} THEN options[1]
                  ELSE keys[CHOOSE k \in best : TRUE]
    IN  [winner |-> winner,
         maxCount |-> IF best = {} THEN 0
                      ELSE WeightedCount(votes, winner, cfg)]

\* for (const [choice, count] of counts) if (count > maxCount) ...: the
\* first choice, in first-vote order, whose count exceeds all before it and
\* is not exceeded later; options[0] with count 0 when no count is positive
HighestCount(votes, options, cfg) ==
    LET keys == ChoicesInOrder(votes)
        best == {k \in DOMAIN keys :
                    /\ WeightedCount(votes, keys[k], cfg) > 0
                    /\ \A j \in DOMAIN keys :
                          /\ WeightedCount(votes, keys[j], cfg)
                                <= WeightedCount(votes, keys[k], cfg)
                          /\ j < k => WeightedCount(votes, keys[j], cfg)
                                          < WeightedCount(votes, keys[k], cfg)}
        winner == IF best = {} THEN options[1]
                  ELSE keys[CHOOSE k \in best : TRUE]
    IN  [winner |-> winner,
         maxCount |-> IF best = {} THEN 0
                      ELSE WeightedCount(votes, winner, cfg)]

\* tallyVotes, case "majority" (and "weighted", which differs in its label)
tallyMajority(votes, options, cfg) ==
    LET high == HighestCount(votes, options, cfg)
    IN  [method |-> cfg.method, winner |-> high.winner,
         votes |-> high.maxCount, total |-> TotalWeight(votes, cfg)]

\* tallyVotes, case "unanimous": every vote is for votes[0].choice
tallyUnanimous(votes, options, cfg) ==
    IF votes # <<>> /\ \A i \in DOMAIN votes : votes[i].choice = votes[1].choice
    THEN [method |-> cfg.method, winner |-> votes[1].choice,
          votes |-> Len(votes), total |-> Len(votes)]
    ELSE [method |-> cfg.method, winner |-> Null,
          breakdown |-> [k \in DOMAIN ChoicesInOrder(votes) |->
                            <<ChoicesInOrder(votes)[k],
                              CountOf(votes, ChoicesInOrder(votes)[k])>>],
          total |-> Len(votes)]

\* v.rank ?? []
RankOf(v) == IF v.rank = <<>> THEN <<>> ELSE v.rank[1]

\* ballot.find((i) => options[i] !== undefined && remainingOptions.has(
\* options[i])): the 0-based index, <<>> when there is none
FirstChoice(rank, options, remaining) ==
    LET live == SelectSeq(rank, LAMBDA i : /\ (i + 1) \in DOMAIN options
                                           /\ options[i + 1] \in remaining)
    IN  IF live = <<>> THEN <<>> ELSE <<live[1]>>

\* the keys of a Map filled from a list, in insertion order
RECURSIVE KeysInOrder(_)
KeysInOrder(list) ==
    IF list = <<>> THEN <<>>
    ELSE LET front == KeysInOrder(SubSeq(list, 1, Len(list) - 1))
             last == list[Len(list)]
         IN  IF \E k \in DOMAIN front : front[k] = last THEN front
             ELSE Append(front, last)

\* Array.from(remainingOptions)[0] ?? options[0]
Survivor(options, remaining) ==
    LET left == SelectSeq(options, LAMBDA o : o \in remaining)
    IN  [method |-> "ranked", winner |-> IF left = <<>> THEN options[1]
                                          ELSE left[1],
         votes |-> 0, total |-> 0, runoff |-> FALSE]

\* an elimination that removes the option with the most first choices
ToEliminate_highest(keys, count) ==
    CHOOSE e \in DOMAIN keys :
        \A j \in DOMAIN keys :
            /\ count[keys[j]] <= count[keys[e]]
            /\ j < e => count[keys[j]] < count[keys[e]]

\* if (count < minCount) { minCount = count; toEliminate = optionIndex }:
\* the first key, in insertion order, with the lowest count
ToEliminate(keys, count) ==
    CHOOSE e \in DOMAIN keys :
        \A j \in DOMAIN keys :
            /\ count[keys[j]] >= count[keys[e]]
            /\ j < e => count[keys[j]] > count[keys[e]]

\* if (optToDelete) remainingOptions.delete(optToDelete): the empty string
\* is falsy and stays
Eliminated(remaining, optToDelete) ==
    IF optToDelete # Str("") THEN remaining \ {optToDelete} ELSE remaining

\* the while loop never ends: there is no result
Forever == <<"forever">>
NeverEnds ==
    [method |-> "ranked", winner |-> Forever, votes |-> 0, total |-> 0,
     runoff |-> FALSE]

\* tallyVotes, case "ranked": the while loop of the instant runoff over
\* the remaining options. An iteration is a function of the ballots, the
\* options and remainingOptions: one that leaves remainingOptions as it
\* found it is repeated without end
RECURSIVE InstantRunoff(_, _, _)
InstantRunoff(ballots, options, remaining) ==
    IF Cardinality(remaining) <= 1 THEN Survivor(options, remaining)
    ELSE LET firsts == [b \in DOMAIN ballots |->
                           FirstChoice(ballots[b], options, remaining)]
             cast == SelectSeq(firsts, LAMBDA f : f # <<>>)
             keys == KeysInOrder([k \in DOMAIN cast |-> cast[k][1]])
             count == [i \in {keys[k] : k \in DOMAIN keys} |->
                          Cardinality({k \in DOMAIN cast : cast[k][1] = i})]
             totalVotes == Len(cast)
             majority == {k \in DOMAIN keys : 2 * count[keys[k]] > totalVotes}
         IN  IF majority # {}
             THEN LET k == CHOOSE k \in majority :
                                \A j \in majority : k <= j
                  IN  [method |-> "ranked", winner |-> options[keys[k] + 1],
                       votes |-> count[keys[k]], total |-> totalVotes,
                       runoff |-> TRUE]
             ELSE IF keys = <<>> THEN Survivor(options, remaining)
             ELSE LET left == Eliminated(remaining,
                              options[keys[ToEliminate(keys, count)] + 1])
                  IN  IF left = remaining THEN NeverEnds
                      ELSE InstantRunoff(ballots, options, left)

\* tallyVotes, case "ranked"
tallyRanked(votes, options, cfg) ==
    InstantRunoff([i \in DOMAIN votes |-> RankOf(votes[i])], options,
                  {options[i] : i \in DOMAIN options})

\* tallyVotes: switch (config.method)
tallyVotes(votes, options, cfg) ==
    CASE cfg.method \in {"majority", "weighted"} ->
            tallyMajority(votes, options, cfg)
      [] cfg.method = "unanimous" -> tallyUnanimous(votes, options, cfg)
      [] cfg.method = "ranked" -> tallyRanked(votes, options, cfg)

----------------------------------------------------------------------------
\* Debate strategy (conductor/strategies/debate.ts)

\* most debate rounds a configuration asks for
MaxRounds == 1

\* config.debaters and config.judgeId are optional, <<>> when unset; a judge
\* is only configured with the judge consensus strategy
DebateConfigs ==
    {c \in [strategy : {"debate"},
            debaters : {<<>>, <<<<"a", "b">>>>, <<<<"b", "a">>>>,
                        <<<<"a", GhostId>>>>},
            maxRounds : 0..MaxRounds,
            consensusStrategy : {"judge", "agreement", "voting"},
            judgeId : {<<>>, <<"c">>, <<GhostId>>}] :
        c.consensusStrategy # "judge" => c.judgeId = <<>>}

\* what a debater may answer when asked for the id it votes for
DebateVoteAnswers == {Str("a"), Str("b"), Str("?")}

\* config.debaters ?? agents.map((a) => a.id), resolved with findAgent
Debaters(cfg) ==
    FindAll(IF cfg.debaters = <<>> THEN Agents ELSE cfg.debaters[1])

\* agreementKeywords.some((kw) => lower.includes(kw)), on Responses
HasAgreementKeyword(statement) == statement = Str("i agree")

\* checkAgreementConsensus with config.consensusThreshold ?? 0.8:
\* agreementCount / statements.size >= threshold
checkAgreementConsensus(statements) ==
    LET agreementCount ==
            Cardinality({i \in DOMAIN statements :
                            HasAgreementKeyword(statements[i].statement)})
    IN  agreementCount * 5 >= 4 * Len(statements)

\* the positions of the debaters other than debater self
Others(debaters, self) ==
    SelectSeq([i \in DOMAIN debaters |-> i], LAMBDA i : i # self)

\* a round prompt that quotes the others' initial statements
otherStatements_initial(debaters, allStatements, self) ==
    [k \in DOMAIN Others(debaters, self) |->
        LET d == Others(debaters, self)[k]
        IN  [id |-> debaters[d], statement |-> allStatements[d][1]]]

\* debaters.filter((d) => d.id !== debater.id) mapped to each one's
\* statements[statements.length - 1]
otherStatements(debaters, allStatements, self) ==
    [k \in DOMAIN Others(debaters, self) |->
        LET d == Others(debaters, self)[k]
        IN  [id |-> debaters[d],
             statement |-> allStatements[d][Len(allStatements[d])]]]

\* allStatements.get(debater.id)?.slice(-1)[0]
previousPosition(allStatements, self) ==
    allStatements[self][Len(allStatements[self])]

\* statements[statements.length - 1] of every debater
FinalStatements(debaters, allStatements) ==
    [i \in DOMAIN debaters |->
        [id |-> debaters[i],
         statement |-> allStatements[i][Len(allStatements[i])]]]

\* response.toLowerCase().includes(d.id.toLowerCase()): an answer of
\* DebateVoteAnswers holds an id exactly when it is that id
Includes(text, id) == text = Str(id)

\* debaters.find((d) => d.id !== voter.id && response includes d.id)
VotedFor(debaters, voter, text) ==
    LET found == SelectSeq(debaters,
                           LAMBDA d : d # voter /\ Includes(text, d))
    IN  IF found = <<>> THEN <<>> ELSE <<found[1]>>

\* determineConsensus, voting: the first id whose count exceeds all before
\* it wins; its final statement is the response
VotingConsensus(debaters, allStatements, votes) ==
    LET keys == ChoicesInOrder(votes)
        best == {k \in DOMAIN keys :
                    \A j \in DOMAIN keys :
                        /\ CountOf(votes, keys[j]) <= CountOf(votes, keys[k])
                        /\ j < k => CountOf(votes, keys[j])
                                        < CountOf(votes, keys[k])}
        finals == FinalStatements(debaters, allStatements)
    IN  IF best = {}
        THEN <<"No consensus reached. Final positions:", finals>>
        ELSE LET winner == keys[CHOOSE k \in best : TRUE]
                 i == CHOOSE i \in DOMAIN debaters : debaters[i] = winner
             IN  finals[i].statement

----------------------------------------------------------------------------
\* Hierarchical strategy (createHierarchicalConductor)

\* config.workerIds and config.maxDelegations are optional, <<>> when unset
HierarchicalConfigs ==
    [strategy : {"hierarchical"},
     managerId : {"a", GhostId},
     workerIds : {<<>>, <<<<"c">>>>},
     maxDelegations : {<<>>, <<1>>}]

\* config.workerIds ?? the ids of all agents but the manager, resolved with
\* findAgent
Workers(cfg) ==
    FindAll(IF cfg.workerIds = <<>>
            THEN SelectSeq(Agents, LAMBDA id : id # cfg.managerId)
            ELSE cfg.workerIds[1])

\* a limit that lets one more delegation through
MaxDelegations_oneMore(cfg) ==
    (IF cfg.maxDelegations = <<>> THEN 10 ELSE cfg.maxDelegations[1]) + 1

\* config.maxDelegations ?? 10
MaxDelegations(cfg) ==
    IF cfg.maxDelegations = <<>> THEN 10 ELSE cfg.maxDelegations[1]

\* findAgent(workers, worker_id)
IsWorker(cfg, id) == \E i \in DOMAIN Workers(cfg) : Workers(cfg)[i] = id

\* the worker_id arguments of the delegate_task calls of one manager response
DelegateCallLists == UNION {[1..k -> {"b", GhostId}] : k \in 0..MaxCalls}

\* config.maxIterations of the manager's agent
ManagerMaxIterations == 2

\* what a worker answers to a delegated task
WorkerResponse == Str("i agree")

\* what delegate_task returns: JSON.stringify({ success, ... }); step is the
\* worker's step in the trace, 0 when no worker was run
DelegateResult(success, message, step) ==
    [success |-> success, error |-> message, step |-> step]

\* the manager's run, before its first iteration; its step is the next one
ManagerInit ==
    [iteration |-> 0, done |-> FALSE, calls |-> <<>>, call |-> 1,
     delegations |-> 0, last |-> Str(""), step |-> Len(trace) + 1,
     results |-> <<>>]

\* the manager's loop condition: !state.done && state.iteration < maxIterations
ManagerLoopCond ==
    ~manager.done /\ manager.iteration < ManagerMaxIterations

----------------------------------------------------------------------------
\* Parallel strategy (createParallelConductor)

\* config.agents and config.concurrency are optional, <<>> when unset;
\* errorMode "unset" stands for a configuration without errorMode
ParallelConfigs ==
    [strategy : {"parallel"},
     agents : {<<>>, <<<<"a", GhostId, "b">>>>},
     concurrency : {<<>>, <<1>>, <<2>>},
     errorMode : {"unset", "fail-fast", "continue", "retry"},
     merger : {"concatenate", "summarize", "select-best", "custom"}]

\* config.agents ?? agents.map((a) => a.id), resolved with findAgent
AgentsToRun(cfg) == FindAll(IF cfg.agents = <<>> THEN Agents ELSE cfg.agents[1])

\* a limiter that lets every selected agent start at once
Concurrency_agentCount(cfg) == Len(AgentsToRun(cfg))

\* config.concurrency ?? agentsToRun.length
Concurrency(cfg) ==
    IF cfg.concurrency = <<>> THEN Len(AgentsToRun(cfg))
    ELSE cfg.concurrency[1]

\* a catch that rethrows in every error mode
Rethrows_always(cfg) == TRUE

\* the catch around runAgent: if (config.errorMode === "fail-fast") throw err
Rethrows(cfg) == cfg.errorMode = "fail-fast"

\* the executing array: a fulfilled promise has spliced itself out
ExecutingArray == SelectSeq(executing, LAMBDA p : p.state # "fulfilled")

\* a promise of the executing list with the given state
HasPromise(state) == \E i \in DOMAIN executing : executing[i].state = state

\* mergeResults: "" for an empty map; else what the merger makes of the
\* entries in the map's iteration order: the joined labelled outputs
\* (concatenate), the summarizer's answer to the prompt joined from them
\* (summarize), the selector's pick from Array.from(results.values())
\* (select-best), merge(results) (custom)
mergeResults(results, merger) ==
    IF Len(results) = 0 THEN Str("") ELSE <<merger, results>>

Configs ==
    SequentialConfigs \cup VotingConfigs \cup DebateConfigs
        \cup HierarchicalConfigs \cup ParallelConfigs

\* no agent run is under way
AgentIdle ==
    /\ maxIterations = 0
    /\ maxInputLength = <<>>
    /\ tools = {}
    /\ aborted = FALSE
    /\ messages = <<>>
    /\ iteration = 0
    /\ done = FALSE
    /\ pc = "idle"
    /\ toolCalls = <<>>
    /\ toolIdx = 1
    /\ error = "none"
    /\ onErrorCalls = 0
    /\ generateCalls = 0
    /\ finishLog = <<>>
    /\ execLog = <<>>
    /\ result = NoResult

CondInit ==
    /\ config \in Configs
    /\ signal \in BOOLEAN
    /\ trace = <<>>
    /\ ensemble \in [hooks : HookSources, steps : {<<>>}]
    /\ beforeAgent = <<>>
    /\ configHooks = <<>>
    /\ cpc = "start"
    /\ pos = 1
    /\ agentResults = <<>>
    /\ cerror = "none"
    /\ response = Null
    /\ LocalsInit
    /\ AgentIdle
    /\ UsageIdle
    /\ LibIdle

\* controller.abort() by the caller while orchestrate() is suspended
CondAbort ==
    /\ cpc \notin {"idle", "returned", "failed"}
    /\ ~signal
    /\ signal' = TRUE
    /\ UNCHANGED <<config, trace, ensemble, beforeAgent, configHooks, cpc,
                   pos, agentResults, cerror, response>>
    /\ UNCHANGED <<seqVars, voteVars, debVars, hierVars, parVars, agentVars,
                   usageVars, libVars>>

\* the onStart hooks have run: enter the strategy's body
SeqBegin ==
    /\ cpc = "start"
    /\ config.strategy = "sequential"
    /\ cpc' = "seq_loop"
    /\ pos' = 1
    /\ UNCHANGED <<config, signal, trace, ensemble, beforeAgent, agentResults,
                   cerror, response>>
    /\ UNCHANGED <<seqVars, voteVars, debVars, hierVars, parVars, agentVars,
                   usageVars, libVars>>
    /\ ConfigHooksFire("onStart")

\* top of the loop over order: checkAbort throws
SeqAbort ==
    /\ cpc = "seq_loop"
    /\ pos <= Len(ExecutionOrder(config))
    /\ checkAbort
    /\ cpc' = "failed"
    /\ cerror' = "aborted"
    /\ UNCHANGED <<config, signal, trace, ensemble, beforeAgent, configHooks,
                   pos, agentResults, response>>
    /\ UNCHANGED <<seqVars, voteVars, debVars, hierVars, parVars, agentVars,
                   usageVars, libVars>>

\* requireAgent throws: the id of the order is not registered
SeqNotFound ==
    /\ cpc = "seq_loop"
    /\ pos <= Len(ExecutionOrder(config))
    /\ ~checkAbort
    /\ ~IsRegistered(ExecutionOrder(config)[pos])
    /\ cpc' = "failed"
    /\ cerror' = "not-found"
    /\ UNCHANGED <<config, signal, trace, ensemble, beforeAgent, configHooks,
                   pos, agentResults, response>>
    /\ UNCHANGED <<seqVars, voteVars, debVars, hierVars, parVars, agentVars,
                   usageVars, libVars>>

\* transform the input when due, and start the agent's step
SeqStart ==
    /\ cpc = "seq_loop"
    /\ pos <= Len(ExecutionOrder(config))
    /\ ~checkAbort
    /\ IsRegistered(ExecutionOrder(config)[pos])
    /\ LET agentId == ExecutionOrder(config)[pos]
           in == IF ShouldTransform(config, agentResults)
                 THEN Transform(currentInput, agentId)
                 ELSE currentInput
       IN  /\ transformLog' =
                 IF ShouldTransform(config, agentResults)
                 THEN Append(transformLog,
                             [output |-> currentInput, role |-> agentId])
                 ELSE transformLog
           /\ currentInput' = in
           /\ RunAgentStart(agentId, in)
    /\ cpc' = "seq_run"
    /\ UNCHANGED <<config, signal, pos, agentResults, cerror, response>>
    /\ UNCHANGED <<voteVars, debVars, hierVars, parVars, agentVars,
                   usageVars, libVars>>
    /\ UNCHANGED configHooks

\* the agent returned: store the result, its response feeds the next agent
SeqAgentReturns ==
    /\ cpc = "seq_run"
    /\ \E r \in Responses :
        /\ RunAgentOutput(Len(trace), r)
        /\ agentResults' = SetResult(agentResults, trace[Len(trace)].agentId, r)
        /\ currentInput' = r
    /\ pos' = pos + 1
    /\ cpc' = "seq_loop"
    /\ UNCHANGED <<config, signal, beforeAgent, cerror, response, transformLog>>
    /\ UNCHANGED <<voteVars, debVars, hierVars, parVars, agentVars,
                   usageVars, libVars>>
    /\ UNCHANGED configHooks

\* the agent threw: runAgent records the error and orchestrate() rethrows
SeqAgentThrows ==
    /\ cpc = "seq_run"
    /\ \E e \in AgentErrors :
        /\ RunAgentRejects(Len(trace), Responses)
        /\ cerror' = e
    /\ cpc' = "failed"
    /\ UNCHANGED <<config, signal, beforeAgent, pos, agentResults, response>>
    /\ UNCHANGED <<seqVars, voteVars, debVars, hierVars, parVars, agentVars,
                   usageVars, libVars>>
    /\ UNCHANGED configHooks

\* the order is exhausted: the final response is the last agent's output
SeqReturn ==
    /\ cpc = "seq_loop"
    /\ pos > Len(ExecutionOrder(config))
    /\ response' = currentInput
    /\ cpc' = "returned"
    /\ UNCHANGED <<config, signal, trace, ensemble, beforeAgent, pos, agentResults,
                   cerror>>
    /\ UNCHANGED <<seqVars, voteVars, debVars, hierVars, parVars, agentVars,
                   usageVars, libVars>>
    /\ ConfigHooksFire("onComplete")

----------------------------------------------------------------------------
\* Voting strategy: orchestrate, generateOptions, collectVote

\* quorum check, then the caller's options or the proposal round
VoteBegin ==
    /\ cpc = "start"
    /\ config.strategy = "voting"
    /\ IF Len(Voters(config)) < MinVoters(Len(Voters(config)), Quorum(config))
       THEN /\ cpc' = "failed"
            /\ cerror' = "quorum-not-met"
            /\ UNCHANGED voting
       ELSE IF config.options = <<>>
       THEN /\ cpc' = "vote_propose"
            /\ UNCHANGED <<cerror, voting>>
       ELSE IF Len(config.options[1]) < 2
       THEN /\ cpc' = "failed"
            /\ cerror' = "insufficient-options"
            /\ UNCHANGED voting
       ELSE /\ cpc' = "vote_collect"
            /\ voting' = [voting EXCEPT !.votingOptions = config.options[1]]
            /\ UNCHANGED cerror
    /\ pos' = 1
    /\ UNCHANGED <<config, signal, trace, ensemble, beforeAgent, agentResults, response>>
    /\ UNCHANGED <<seqVars, debVars, hierVars, parVars, agentVars,
                   usageVars, libVars>>
    /\ ConfigHooksFire("onStart")

\* generateOptions, top of the loop: checkAbort throws
VoteProposeAbort ==
    /\ cpc = "vote_propose"
    /\ pos <= Len(Voters(config))
    /\ checkAbort
    /\ cpc' = "failed"
    /\ cerror' = "aborted"
    /\ UNCHANGED <<config, signal, trace, ensemble, beforeAgent, configHooks,
                   pos, agentResults, response>>
    /\ UNCHANGED <<seqVars, voteVars, debVars, hierVars, parVars, agentVars,
                   usageVars, libVars>>

\* generateOptions: ask the voter for a proposal
VoteProposeStart ==
    /\ cpc = "vote_propose"
    /\ pos <= Len(Voters(config))
    /\ ~checkAbort
    /\ RunAgentStart(Voters(config)[pos], <<"proposalPrompt", Input>>)
    /\ cpc' = "vote_propose_run"
    /\ UNCHANGED <<config, signal, pos, agentResults, cerror, response>>
    /\ UNCHANGED <<seqVars, voteVars, debVars, hierVars, parVars, agentVars,
                   usageVars, libVars>>
    /\ UNCHANGED configHooks

\* generateOptions: a new proposal joins the options, a known one is dropped
VoteProposeReturns ==
    /\ cpc = "vote_propose_run"
    /\ \E r \in Responses :
        /\ RunAgentOutput(Len(trace), r)
        /\ agentResults' = SetResult(agentResults, Voters(config)[pos], r)
        /\ voting' = [voting EXCEPT !.generatedOptions =
                         IF \E i \in DOMAIN @ : @[i] = r THEN @
                         ELSE Append(@, r)]
    /\ pos' = pos + 1
    /\ cpc' = "vote_propose"
    /\ UNCHANGED <<config, signal, beforeAgent, cerror, response>>
    /\ UNCHANGED <<seqVars, debVars, hierVars, parVars, agentVars,
                   usageVars, libVars>>
    /\ UNCHANGED configHooks

\* generateOptions: the voter's agent threw
VoteProposeThrows ==
    /\ cpc = "vote_propose_run"
    /\ \E e \in AgentErrors :
        /\ RunAgentRejects(Len(trace), Responses)
        /\ cerror' = e
    /\ cpc' = "failed"
    /\ UNCHANGED <<config, signal, beforeAgent, pos, agentResults, response>>
    /\ UNCHANGED <<seqVars, voteVars, debVars, hierVars, parVars, agentVars,
                   usageVars, libVars>>
    /\ UNCHANGED configHooks

\* generateOptions returned: at least two options are needed
VoteProposeDone ==
    /\ cpc = "vote_propose"
    /\ pos > Len(Voters(config))
    /\ IF Len(voting.generatedOptions) < 2
       THEN /\ cpc' = "failed"
            /\ cerror' = "insufficient-options"
            /\ UNCHANGED voting
       ELSE /\ cpc' = "vote_collect"
            /\ voting' = [voting EXCEPT !.votingOptions = voting.generatedOptions]
            /\ UNCHANGED cerror
    /\ pos' = 1
    /\ UNCHANGED <<config, signal, trace, ensemble, beforeAgent, configHooks,
                   agentResults, response>>
    /\ UNCHANGED <<seqVars, debVars, hierVars, parVars, agentVars,
                   usageVars, libVars>>

\* vote collection, top of the loop: checkAbort throws
VoteCollectAbort ==
    /\ cpc = "vote_collect"
    /\ pos <= Len(Voters(config))
    /\ checkAbort
    /\ cpc' = "failed"
    /\ cerror' = "aborted"
    /\ UNCHANGED <<config, signal, trace, ensemble, beforeAgent, configHooks,
                   pos, agentResults, response>>
    /\ UNCHANGED <<seqVars, voteVars, debVars, hierVars, parVars, agentVars,
                   usageVars, libVars>>

\* collectVote: prompt the voter with the numbered options
VoteCollectStart ==
    /\ cpc = "vote_collect"
    /\ pos <= Len(Voters(config))
    /\ ~checkAbort
    /\ RunAgentStart(Voters(config)[pos],
                     <<"votePrompt", Input, voting.votingOptions>>)
    /\ cpc' = "vote_collect_run"
    /\ UNCHANGED <<config, signal, pos, agentResults, cerror, response>>
    /\ UNCHANGED <<seqVars, voteVars, debVars, hierVars, parVars, agentVars,
                   usageVars, libVars>>
    /\ UNCHANGED configHooks

\* collectVote returned: record the vote (onVote fires)
VoteCollectReturns ==
    /\ cpc = "vote_collect_run"
    /\ \E r \in VoteAnswers :
        LET choice == ParseChoice(r, voting.votingOptions)
        IN  /\ RunAgentOutput(Len(trace), r)
            /\ voting' = [voting EXCEPT !.votes =
                             Append(@, [agentId |-> Voters(config)[pos],
                                        choice |-> choice])]
            /\ agentResults' = SetResult(agentResults, Voters(config)[pos],
                                         <<"Vote: ", choice>>)
    /\ pos' = pos + 1
    /\ cpc' = "vote_collect"
    /\ UNCHANGED <<config, signal, beforeAgent, cerror, response>>
    /\ UNCHANGED <<seqVars, debVars, hierVars, parVars, agentVars,
                   usageVars, libVars>>
    /\ UNCHANGED configHooks

\* collectVote: the voter's agent threw
VoteCollectThrows ==
    /\ cpc = "vote_collect_run"
    /\ \E e \in AgentErrors :
        /\ RunAgentRejects(Len(trace), VoteAnswers)
        /\ cerror' = e
    /\ cpc' = "failed"
    /\ UNCHANGED <<config, signal, beforeAgent, pos, agentResults, response>>
    /\ UNCHANGED <<seqVars, voteVars, debVars, hierVars, parVars, agentVars,
                   usageVars, libVars>>
    /\ UNCHANGED configHooks

\* all votes are in: tally and return
VoteReturn ==
    /\ cpc = "vote_collect"
    /\ pos > Len(Voters(config))
    /\ response' = tallyVotes(voting.votes, voting.votingOptions, config)
    /\ cpc' = "returned"
    /\ UNCHANGED <<config, signal, trace, ensemble, beforeAgent, pos, agentResults,
                   cerror>>
    /\ UNCHANGED <<seqVars, voteVars, debVars, hierVars, parVars, agentVars,
                   usageVars, libVars>>
    /\ ConfigHooksFire("onComplete")

----------------------------------------------------------------------------
\* Debate strategy: orchestrate, determineConsensus

\* fewer than two debaters throw; else every debater gets a statement list
DebBegin ==
    /\ cpc = "start"
    /\ config.strategy = "debate"
    /\ IF Len(Debaters(config)) < 2
       THEN /\ cpc' = "failed"
            /\ cerror' = "Debate requires at least 2 agents"
            /\ UNCHANGED debate
       ELSE /\ cpc' = "deb_initial"
            /\ debate' = [debate EXCEPT !.allStatements =
                             [i \in DOMAIN Debaters(config) |-> <<>>]]
            /\ UNCHANGED cerror
    /\ pos' = 1
    /\ UNCHANGED <<config, signal, trace, ensemble, beforeAgent, agentResults, response>>
    /\ UNCHANGED <<seqVars, voteVars, hierVars, parVars, agentVars,
                   usageVars, libVars>>
    /\ ConfigHooksFire("onStart")

\* initial positions, top of the loop: checkAbort throws
DebInitialAbort ==
    /\ cpc = "deb_initial"
    /\ pos <= Len(Debaters(config))
    /\ checkAbort
    /\ cpc' = "failed"
    /\ cerror' = "aborted"
    /\ UNCHANGED <<config, signal, trace, ensemble, beforeAgent, configHooks,
                   pos, agentResults, response>>
    /\ UNCHANGED <<seqVars, voteVars, debVars, hierVars, parVars, agentVars,
                   usageVars, libVars>>

\* initial positions: the debater is asked for its position
DebInitialStart ==
    /\ cpc = "deb_initial"
    /\ pos <= Len(Debaters(config))
    /\ ~checkAbort
    /\ RunAgentStart(Debaters(config)[pos], <<"initialPrompt", Input>>)
    /\ cpc' = "deb_initial_run"
    /\ UNCHANGED <<config, signal, pos, agentResults, cerror, response>>
    /\ UNCHANGED <<seqVars, voteVars, debVars, hierVars, parVars, agentVars,
                   usageVars, libVars>>
    /\ UNCHANGED configHooks

\* initial positions: the statement is recorded
DebInitialReturns ==
    /\ cpc = "deb_initial_run"
    /\ \E r \in Responses :
        /\ RunAgentOutput(Len(trace), r)
        /\ agentResults' = SetResult(agentResults, Debaters(config)[pos], r)
        /\ debate' = [debate EXCEPT !.allStatements[pos] = Append(@, r)]
    /\ pos' = pos + 1
    /\ cpc' = "deb_initial"
    /\ UNCHANGED <<config, signal, beforeAgent, cerror, response>>
    /\ UNCHANGED <<seqVars, voteVars, hierVars, parVars, agentVars,
                   usageVars, libVars>>
    /\ UNCHANGED configHooks

\* a debater's agent threw, in the initial positions or in a round
DebAgentThrows ==
    /\ cpc \in {"deb_initial_run", "deb_turn_run"}
    /\ \E e \in AgentErrors :
        /\ RunAgentRejects(Len(trace), Responses)
        /\ cerror' = e
    /\ cpc' = "failed"
    /\ UNCHANGED <<config, signal, beforeAgent, pos, agentResults, response>>
    /\ UNCHANGED <<seqVars, voteVars, debVars, hierVars, parVars, agentVars,
                   usageVars, libVars>>
    /\ UNCHANGED configHooks

\* all initial positions are in: round 1 is next
DebInitialDone ==
    /\ cpc = "deb_initial"
    /\ pos > Len(Debaters(config))
    /\ debate' = [debate EXCEPT !.round = 1]
    /\ cpc' = "deb_round"
    /\ UNCHANGED <<config, signal, trace, ensemble, beforeAgent, configHooks,
                   pos, agentResults, cerror, response>>
    /\ UNCHANGED <<seqVars, voteVars, hierVars, parVars, agentVars,
                   usageVars, libVars>>

\* top of a round: checkAbort throws
DebRoundAbort ==
    /\ cpc = "deb_round"
    /\ debate.round <= config.maxRounds
    /\ checkAbort
    /\ cpc' = "failed"
    /\ cerror' = "aborted"
    /\ UNCHANGED <<config, signal, trace, ensemble, beforeAgent, configHooks,
                   pos, agentResults, response>>
    /\ UNCHANGED <<seqVars, voteVars, debVars, hierVars, parVars, agentVars,
                   usageVars, libVars>>

\* top of a round: a fresh roundStatements map
DebRoundEnter ==
    /\ cpc = "deb_round"
    /\ debate.round <= config.maxRounds
    /\ ~checkAbort
    /\ debate' = [debate EXCEPT !.roundStatements = <<>>]
    /\ pos' = 1
    /\ cpc' = "deb_turn"
    /\ UNCHANGED <<config, signal, trace, ensemble, beforeAgent, configHooks,
                   agentResults, cerror, response>>
    /\ UNCHANGED <<seqVars, voteVars, hierVars, parVars, agentVars,
                   usageVars, libVars>>

\* maxRounds rounds were held
DebRoundsOver ==
    /\ cpc = "deb_round"
    /\ debate.round > config.maxRounds
    /\ cpc' = "deb_consensus"
    /\ UNCHANGED <<config, signal, trace, ensemble, beforeAgent, configHooks,
                   pos, agentResults, cerror, response>>
    /\ UNCHANGED <<seqVars, voteVars, debVars, hierVars, parVars, agentVars,
                   usageVars, libVars>>

\* a debater's turn: checkAbort throws
DebTurnAbort ==
    /\ cpc = "deb_turn"
    /\ pos <= Len(Debaters(config))
    /\ checkAbort
    /\ cpc' = "failed"
    /\ cerror' = "aborted"
    /\ UNCHANGED <<config, signal, trace, ensemble, beforeAgent, configHooks,
                   pos, agentResults, response>>
    /\ UNCHANGED <<seqVars, voteVars, debVars, hierVars, parVars, agentVars,
                   usageVars, libVars>>

\* a debater's turn: it is shown the others' latest statements
DebTurnStart ==
    /\ cpc = "deb_turn"
    /\ pos <= Len(Debaters(config))
    /\ ~checkAbort
    /\ RunAgentStart(Debaters(config)[pos],
                     <<"roundPrompt", debate.round, Input,
                       otherStatements(Debaters(config),
                                       debate.allStatements, pos),
                       previousPosition(debate.allStatements, pos)>>)
    /\ cpc' = "deb_turn_run"
    /\ UNCHANGED <<config, signal, pos, agentResults, cerror, response>>
    /\ UNCHANGED <<seqVars, voteVars, debVars, hierVars, parVars, agentVars,
                   usageVars, libVars>>
    /\ UNCHANGED configHooks

\* a debater's turn: the statement is recorded for the round and overall
DebTurnReturns ==
    /\ cpc = "deb_turn_run"
    /\ \E r \in Responses :
        /\ RunAgentOutput(Len(trace), r)
        /\ agentResults' = SetResult(agentResults, Debaters(config)[pos], r)
        /\ debate' = [debate EXCEPT
                         !.roundStatements =
                             Append(@, [id |-> Debaters(config)[pos],
                                        statement |-> r]),
                         !.allStatements[pos] = Append(@, r)]
    /\ pos' = pos + 1
    /\ cpc' = "deb_turn"
    /\ UNCHANGED <<config, signal, beforeAgent, cerror, response>>
    /\ UNCHANGED <<seqVars, voteVars, hierVars, parVars, agentVars,
                   usageVars, libVars>>
    /\ UNCHANGED configHooks

\* end of a round (onDebateRound fires): agreement may end the debate early
DebRoundEnd ==
    /\ cpc = "deb_turn"
    /\ pos > Len(Debaters(config))
    /\ LET fired == Append(debate.roundLog,
                            [round |-> debate.round,
                             statements |-> debate.roundStatements])
       IN  IF /\ config.consensusStrategy = "agreement"
              /\ checkAgreementConsensus(debate.roundStatements)
           THEN /\ cpc' = "deb_consensus"
                /\ debate' = [debate EXCEPT !.roundLog = fired]
           ELSE /\ cpc' = "deb_round"
                /\ debate' = [debate EXCEPT !.round = @ + 1,
                                            !.roundLog = fired]
    /\ UNCHANGED <<config, signal, trace, ensemble, beforeAgent, configHooks,
                   pos, agentResults, cerror, response>>
    /\ UNCHANGED <<seqVars, voteVars, hierVars, parVars, agentVars,
                   usageVars, libVars>>

\* determineConsensus, judge: no judge id, or requireAgent throws
DebJudgeMissing ==
    /\ cpc = "deb_consensus"
    /\ config.consensusStrategy = "judge"
    /\ \/ config.judgeId = <<>> /\ cerror' = "Judge ID required"
       \/ /\ config.judgeId # <<>>
          /\ ~IsRegistered(config.judgeId[1])
          /\ cerror' = "not-found"
    /\ cpc' = "failed"
    /\ UNCHANGED <<config, signal, trace, ensemble, beforeAgent, configHooks,
                   pos, agentResults, response>>
    /\ UNCHANGED <<seqVars, voteVars, debVars, hierVars, parVars, agentVars,
                   usageVars, libVars>>

\* determineConsensus, judge: the judge is run on the debate summary
DebJudgeStart ==
    /\ cpc = "deb_consensus"
    /\ config.consensusStrategy = "judge"
    /\ config.judgeId # <<>>
    /\ IsRegistered(config.judgeId[1])
    /\ RunAgentStart(config.judgeId[1],
                     <<"judgePrompt", Input,
                       FinalStatements(Debaters(config),
                                       debate.allStatements)>>)
    /\ cpc' = "deb_judge_run"
    /\ UNCHANGED <<config, signal, pos, agentResults, cerror, response>>
    /\ UNCHANGED <<seqVars, voteVars, debVars, hierVars, parVars, agentVars,
                   usageVars, libVars>>
    /\ UNCHANGED configHooks

\* the judge's verdict is the response
DebJudgeReturns ==
    /\ cpc = "deb_judge_run"
    /\ \E r \in Responses :
        /\ RunAgentOutput(Len(trace), r)
        /\ agentResults' = SetResult(agentResults, config.judgeId[1], r)
        /\ response' = r
    /\ cpc' = "returned"
    /\ UNCHANGED <<config, signal, beforeAgent, pos, cerror>>
    /\ UNCHANGED <<seqVars, voteVars, debVars, hierVars, parVars, agentVars,
                   usageVars, libVars>>
    /\ ConfigHooksFire("onComplete")

\* the judge's or a voting debater's agent threw
DebConsensusThrows ==
    /\ cpc \in {"deb_judge_run", "deb_vote_run"}
    /\ \E e \in AgentErrors :
        /\ RunAgentRejects(Len(trace), IF cpc = "deb_judge_run" THEN Responses
                                      ELSE DebateVoteAnswers)
        /\ cerror' = e
    /\ cpc' = "failed"
    /\ UNCHANGED <<config, signal, beforeAgent, pos, agentResults, response>>
    /\ UNCHANGED <<seqVars, voteVars, debVars, hierVars, parVars, agentVars,
                   usageVars, libVars>>
    /\ UNCHANGED configHooks

\* determineConsensus, agreement: the final statements are the response
DebAgreementReturn ==
    /\ cpc = "deb_consensus"
    /\ config.consensusStrategy = "agreement"
    /\ response' = <<"Debate Conclusion:",
                     FinalStatements(Debaters(config), debate.allStatements)>>
    /\ cpc' = "returned"
    /\ UNCHANGED <<config, signal, trace, ensemble, beforeAgent, pos, agentResults,
                   cerror>>
    /\ UNCHANGED <<seqVars, voteVars, debVars, hierVars, parVars, agentVars,
                   usageVars, libVars>>
    /\ ConfigHooksFire("onComplete")

\* determineConsensus, voting: an empty votes map
DebVotingBegin ==
    /\ cpc = "deb_consensus"
    /\ config.consensusStrategy = "voting"
    /\ pos' = 1
    /\ cpc' = "deb_vote"
    /\ UNCHANGED <<config, signal, trace, ensemble, beforeAgent, configHooks,
                   agentResults, cerror, response>>
    /\ UNCHANGED <<seqVars, voteVars, debVars, hierVars, parVars, agentVars,
                   usageVars, libVars>>

\* determineConsensus, voting: the debater is asked for its vote
DebVoteStart ==
    /\ cpc = "deb_vote"
    /\ pos <= Len(Debaters(config))
    /\ RunAgentStart(Debaters(config)[pos],
                     <<"votePrompt",
                       otherStatements(Debaters(config),
                                       debate.allStatements, pos)>>)
    /\ cpc' = "deb_vote_run"
    /\ UNCHANGED <<config, signal, pos, agentResults, cerror, response>>
    /\ UNCHANGED <<seqVars, voteVars, debVars, hierVars, parVars, agentVars,
                   usageVars, libVars>>
    /\ UNCHANGED configHooks

\* determineConsensus, voting: a vote that names another debater counts
DebVoteReturns ==
    /\ cpc = "deb_vote_run"
    /\ \E r \in DebateVoteAnswers :
        LET votedFor == VotedFor(Debaters(config), Debaters(config)[pos], r)
        IN  /\ RunAgentOutput(Len(trace), r)
            /\ debate' = [debate EXCEPT !.votes =
                             IF votedFor = <<>> THEN @
                             ELSE Append(@, [agentId |-> Debaters(config)[pos],
                                             choice |-> votedFor[1]])]
    /\ pos' = pos + 1
    /\ cpc' = "deb_vote"
    /\ UNCHANGED <<config, signal, beforeAgent, agentResults, cerror, response>>
    /\ UNCHANGED <<seqVars, voteVars, hierVars, parVars, agentVars,
                   usageVars, libVars>>
    /\ UNCHANGED configHooks

\* determineConsensus, voting: the votes are counted
DebVoteReturn ==
    /\ cpc = "deb_vote"
    /\ pos > Len(Debaters(config))
    /\ response' = VotingConsensus(Debaters(config), debate.allStatements,
                                   debate.votes)
    /\ cpc' = "returned"
    /\ UNCHANGED <<config, signal, trace, ensemble, beforeAgent, pos, agentResults,
                   cerror>>
    /\ UNCHANGED <<seqVars, voteVars, debVars, hierVars, parVars, agentVars,
                   usageVars, libVars>>
    /\ ConfigHooksFire("onComplete")

----------------------------------------------------------------------------
\* Hierarchical strategy: orchestrate, delegate_task, the manager's run

\* requireAgent(agents, config.managerId) throws
HierNotFound ==
    /\ cpc = "start"
    /\ config.strategy = "hierarchical"
    /\ ~IsRegistered(config.managerId)
    /\ cpc' = "failed"
    /\ cerror' = "not-found"
    /\ UNCHANGED <<config, signal, trace, ensemble, beforeAgent, pos, agentResults,
                   response>>
    /\ UNCHANGED <<seqVars, voteVars, debVars, hierVars, parVars, agentVars,
                   usageVars, libVars>>
    /\ ConfigHooksFire("onStart")

\* the manager is run on the instruction, with delegate_task among its tools
HierBegin ==
    /\ cpc = "start"
    /\ config.strategy = "hierarchical"
    /\ IsRegistered(config.managerId)
    /\ RunAgentStart(config.managerId, <<"managerInstruction", Input>>)
    /\ manager' = ManagerInit
    /\ cpc' = "mgr_loop"
    /\ UNCHANGED <<config, signal, pos, agentResults, cerror, response>>
    /\ UNCHANGED <<seqVars, voteVars, debVars, parVars, agentVars,
                   usageVars, libVars>>
    /\ ConfigHooksFire("onStart")

\* the manager's run, top of an iteration: the signal is aborted, run throws
\* and runAgent marks the manager's step
MgrAbort ==
    /\ cpc = "mgr_loop"
    /\ ManagerLoopCond
    /\ signal
    /\ RunAgentError(manager.step)
    /\ cpc' = "failed"
    /\ cerror' = "aborted"
    /\ UNCHANGED <<config, signal, beforeAgent, pos, agentResults, response>>
    /\ UNCHANGED <<seqVars, voteVars, debVars, hierVars, parVars, agentVars,
                   usageVars, libVars>>
    /\ UNCHANGED configHooks

\* the manager's run, top of an iteration: the backend is called
MgrGenerate ==
    /\ cpc = "mgr_loop"
    /\ ManagerLoopCond
    /\ ~signal
    /\ manager' = [manager EXCEPT !.iteration = @ + 1]
    /\ cpc' = "mgr_generate"
    /\ UNCHANGED <<config, signal, trace, ensemble, beforeAgent, configHooks,
                   pos, agentResults, cerror, response>>
    /\ UNCHANGED <<seqVars, voteVars, debVars, parVars, agentVars,
                   usageVars, libVars>>

\* the backend answers without tool calls: the manager is done
MgrGenerateStop ==
    /\ cpc = "mgr_generate"
    /\ \E r \in Responses :
        manager' = [manager EXCEPT !.done = TRUE, !.last = r]
    /\ cpc' = "mgr_loop"
    /\ UNCHANGED <<config, signal, trace, ensemble, beforeAgent, configHooks,
                   pos, agentResults, cerror, response>>
    /\ UNCHANGED <<seqVars, voteVars, debVars, parVars, agentVars,
                   usageVars, libVars>>

\* the backend asks for delegate_task calls (the message has no content)
MgrGenerateToolCalls ==
    /\ cpc = "mgr_generate"
    /\ \E calls \in DelegateCallLists :
        manager' = [manager EXCEPT !.calls = calls, !.call = 1,
                                   !.last = Str("")]
    /\ cpc' = "mgr_tools"
    /\ UNCHANGED <<config, signal, trace, ensemble, beforeAgent, configHooks,
                   pos, agentResults, cerror, response>>
    /\ UNCHANGED <<seqVars, voteVars, debVars, parVars, agentVars,
                   usageVars, libVars>>

\* the backend throws: run rethrows and runAgent marks the manager's step
MgrGenerateThrows ==
    /\ cpc = "mgr_generate"
    /\ RunAgentError(manager.step)
    /\ cpc' = "failed"
    /\ cerror' = "agent failed"
    /\ UNCHANGED <<config, signal, beforeAgent, pos, agentResults, response>>
    /\ UNCHANGED <<seqVars, voteVars, debVars, hierVars, parVars, agentVars,
                   usageVars, libVars>>
    /\ UNCHANGED configHooks

\* delegate_task past the limit: a serialized error, no worker is run
DelegateLimit ==
    /\ cpc = "mgr_tools"
    /\ manager.call <= Len(manager.calls)
    /\ manager.delegations + 1 > MaxDelegations(config)
    /\ manager' = [manager EXCEPT
                       !.delegations = @ + 1, !.call = @ + 1,
                       !.results = Append(@, DelegateResult(FALSE, "Maximum delegation limit reached", 0))]
    /\ UNCHANGED <<config, signal, trace, ensemble, beforeAgent, configHooks,
                   cpc, pos, agentResults, cerror, response>>
    /\ UNCHANGED <<seqVars, voteVars, debVars, parVars, agentVars,
                   usageVars, libVars>>

\* delegate_task to an id that is not among the workers: a serialized error
DelegateUnknown ==
    /\ cpc = "mgr_tools"
    /\ manager.call <= Len(manager.calls)
    /\ manager.delegations + 1 <= MaxDelegations(config)
    /\ ~IsWorker(config, manager.calls[manager.call])
    /\ manager' = [manager EXCEPT
                       !.delegations = @ + 1, !.call = @ + 1,
                       !.results = Append(@, DelegateResult(FALSE, "not found", 0))]
    /\ UNCHANGED <<config, signal, trace, ensemble, beforeAgent, configHooks,
                   cpc, pos, agentResults, cerror, response>>
    /\ UNCHANGED <<seqVars, voteVars, debVars, parVars, agentVars,
                   usageVars, libVars>>

\* delegate_task: checkAbort throws inside the try, a serialized error
DelegateAborted ==
    /\ cpc = "mgr_tools"
    /\ manager.call <= Len(manager.calls)
    /\ manager.delegations + 1 <= MaxDelegations(config)
    /\ IsWorker(config, manager.calls[manager.call])
    /\ checkAbort
    /\ manager' = [manager EXCEPT
                       !.delegations = @ + 1, !.call = @ + 1,
                       !.results = Append(@, DelegateResult(FALSE, "aborted", 0))]
    /\ UNCHANGED <<config, signal, trace, ensemble, beforeAgent, configHooks,
                   cpc, pos, agentResults, cerror, response>>
    /\ UNCHANGED <<seqVars, voteVars, debVars, parVars, agentVars,
                   usageVars, libVars>>

\* delegate_task: the worker is run on the task
DelegateStart ==
    /\ cpc = "mgr_tools"
    /\ manager.call <= Len(manager.calls)
    /\ manager.delegations + 1 <= MaxDelegations(config)
    /\ IsWorker(config, manager.calls[manager.call])
    /\ ~checkAbort
    /\ RunAgentStart(manager.calls[manager.call], <<"task", manager.call>>)
    /\ manager' = [manager EXCEPT !.delegations = @ + 1]
    /\ cpc' = "del_run"
    /\ UNCHANGED <<config, signal, pos, agentResults, cerror, response>>
    /\ UNCHANGED <<seqVars, voteVars, debVars, parVars, agentVars,
                   usageVars, libVars>>
    /\ UNCHANGED configHooks

\* delegate_task: the worker's result is recorded and serialized
DelegateReturns ==
    /\ cpc = "del_run"
    /\ RunAgentOutput(Len(trace), WorkerResponse)
    /\ agentResults' = SetResult(agentResults, manager.calls[manager.call],
                                 WorkerResponse)
    /\ manager' = [manager EXCEPT
                       !.call = @ + 1,
                       !.results = Append(@, DelegateResult(TRUE, "none",
                                                            Len(trace)))]
    /\ cpc' = "mgr_tools"
    /\ UNCHANGED <<config, signal, beforeAgent, pos, cerror, response>>
    /\ UNCHANGED <<seqVars, voteVars, debVars, parVars, agentVars,
                   usageVars, libVars>>
    /\ UNCHANGED configHooks

\* delegate_task: the worker threw, the catch serializes the error
DelegateThrows ==
    /\ cpc = "del_run"
    /\ RunAgentRejects(Len(trace), {WorkerResponse})
    /\ manager' = [manager EXCEPT
                       !.call = @ + 1,
                       !.results = Append(@, DelegateResult(FALSE, "agent failed",
                                                            Len(trace)))]
    /\ cpc' = "mgr_tools"
    /\ UNCHANGED <<config, signal, beforeAgent, pos, agentResults, cerror,
                   response>>
    /\ UNCHANGED <<seqVars, voteVars, debVars, parVars, agentVars,
                   usageVars, libVars>>
    /\ UNCHANGED configHooks

\* every call of the manager's response was answered
MgrToolsDone ==
    /\ cpc = "mgr_tools"
    /\ manager.call > Len(manager.calls)
    /\ cpc' = "mgr_loop"
    /\ UNCHANGED <<config, signal, trace, ensemble, beforeAgent, configHooks,
                   pos, agentResults, cerror, response>>
    /\ UNCHANGED <<seqVars, voteVars, debVars, hierVars, parVars, agentVars,
                   usageVars, libVars>>

\* the manager's run returned and onAfterAgent threw: runAgent rejects
HierManagerRejects ==
    /\ cpc = "mgr_loop"
    /\ ~ManagerLoopCond
    /\ RunAgentHookThrows(manager.step, manager.last)
    /\ cpc' = "failed"
    /\ cerror' = "agent failed"
    /\ UNCHANGED <<config, signal, beforeAgent, pos, agentResults, response>>
    /\ UNCHANGED <<seqVars, voteVars, debVars, hierVars, parVars, agentVars,
                   usageVars, libVars>>
    /\ UNCHANGED configHooks

\* the manager's run returned: its response is the ensemble's
HierReturn ==
    /\ cpc = "mgr_loop"
    /\ ~ManagerLoopCond
    /\ RunAgentOutput(manager.step, manager.last)
    /\ agentResults' = SetResult(agentResults, config.managerId, manager.last)
    /\ response' = manager.last
    /\ cpc' = "returned"
    /\ UNCHANGED <<config, signal, beforeAgent, pos, cerror>>
    /\ UNCHANGED <<seqVars, voteVars, debVars, hierVars, parVars, agentVars,
                   usageVars, libVars>>
    /\ ConfigHooksFire("onComplete")

----------------------------------------------------------------------------
\* Parallel strategy: orchestrate, runWithConcurrencyLimit

\* runWithConcurrencyLimit is entered with an empty executing array
ParBegin ==
    /\ cpc = "start"
    /\ config.strategy = "parallel"
    /\ pos' = 1
    /\ cpc' = "par_launch"
    /\ UNCHANGED <<config, signal, trace, ensemble, beforeAgent, agentResults, cerror,
                   response>>
    /\ UNCHANGED <<seqVars, voteVars, debVars, hierVars, parVars, agentVars,
                   usageVars, libVars>>
    /\ ConfigHooksFire("onStart")

\* fn(item): checkAbort throws before the try, the promise is rejected and
\* stays in the array; at the limit the loop awaits Promise.race
ParLaunchAborted ==
    /\ cpc = "par_launch"
    /\ pos <= Len(AgentsToRun(config))
    /\ checkAbort
    /\ executing' = Append(ExecutingArray,
                           [id |-> AgentsToRun(config)[pos], step |-> 0,
                            state |-> "rejected", error |-> "aborted"])
    /\ pos' = pos + 1
    /\ cpc' = IF Len(executing') >= Concurrency(config) THEN "par_race"
              ELSE "par_launch"
    /\ UNCHANGED <<config, signal, trace, ensemble, beforeAgent, configHooks,
                   agentResults, cerror, response>>
    /\ UNCHANGED <<seqVars, voteVars, debVars, hierVars, errors, agentVars,
                   usageVars, libVars>>

\* fn(item): the agent is started, its promise is pending; at the limit the
\* loop awaits Promise.race
ParLaunch ==
    /\ cpc = "par_launch"
    /\ pos <= Len(AgentsToRun(config))
    /\ ~checkAbort
    /\ RunAgentStart(AgentsToRun(config)[pos], Input)
    /\ executing' = Append(ExecutingArray,
                           [id |-> AgentsToRun(config)[pos],
                            step |-> Len(trace) + 1,
                            state |-> "pending", error |-> "none"])
    /\ pos' = pos + 1
    /\ cpc' = IF Len(executing') >= Concurrency(config) THEN "par_race"
              ELSE "par_launch"
    /\ UNCHANGED <<config, signal, agentResults, cerror, response>>
    /\ UNCHANGED <<seqVars, voteVars, debVars, hierVars, errors, agentVars,
                   usageVars, libVars>>
    /\ UNCHANGED configHooks

\* every item was launched: the loop is left for Promise.all
ParLaunched ==
    /\ cpc = "par_launch"
    /\ pos > Len(AgentsToRun(config))
    /\ executing' = ExecutingArray
    /\ cpc' = "par_all"
    /\ UNCHANGED <<config, signal, trace, ensemble, beforeAgent, configHooks,
                   pos, agentResults, cerror, response>>
    /\ UNCHANGED <<seqVars, voteVars, debVars, hierVars, errors, agentVars,
                   usageVars, libVars>>

\* a started agent settles while orchestrate awaits, or after it has thrown:
\* Promise.race is over with the first promise that settles, Promise.all
\* with the first that rejects
CanSettle ==
    /\ config.strategy = "parallel"
    /\ \/ cpc = "par_race" /\ ~HasPromise("fulfilled") /\ ~HasPromise("rejected")
       \/ cpc = "par_all" /\ ~HasPromise("rejected")
       \/ cpc = "failed"

\* a started agent returns: its result is recorded, the promise fulfils
ParAgentReturns ==
    /\ CanSettle
    /\ \E i \in DOMAIN executing, r \in Responses :
        /\ executing[i].state = "pending"
        /\ RunAgentOutput(executing[i].step, r)
        /\ agentResults' = SetResult(agentResults, executing[i].id, r)
        /\ executing' = [executing EXCEPT ![i].state = "fulfilled"]
    /\ UNCHANGED <<config, signal, beforeAgent, cpc, pos, cerror, response>>
    /\ UNCHANGED <<seqVars, voteVars, debVars, hierVars, errors, agentVars,
                   usageVars, libVars>>
    /\ UNCHANGED configHooks

\* a started agent throws: the error is collected; fail-fast rethrows it
ParAgentThrows ==
    /\ CanSettle
    /\ \E i \in DOMAIN executing, e \in AgentErrors :
        /\ executing[i].state = "pending"
        /\ RunAgentRejects(executing[i].step, Responses)
        /\ errors' = Append(errors, e)
        /\ executing' = [executing EXCEPT
                            ![i].state = IF Rethrows(config)
                                         THEN "rejected" ELSE "fulfilled",
                            ![i].error = IF Rethrows(config)
                                         THEN e ELSE "none"]
    /\ UNCHANGED <<config, signal, beforeAgent, cpc, pos, agentResults, cerror,
                   response>>
    /\ UNCHANGED <<seqVars, voteVars, debVars, hierVars, agentVars,
                   usageVars, libVars>>
    /\ UNCHANGED configHooks

\* Promise.race or Promise.all rejects: orchestrate throws the rejection
ParRejected ==
    /\ cpc \in {"par_race", "par_all"}
    /\ \E i \in DOMAIN executing :
        /\ executing[i].state = "rejected"
        /\ \A j \in 1..(i - 1) : executing[j].state # "rejected"
        /\ cerror' = executing[i].error
    /\ cpc' = "failed"
    /\ UNCHANGED <<config, signal, trace, ensemble, beforeAgent, configHooks,
                   pos, agentResults, response>>
    /\ UNCHANGED <<seqVars, voteVars, debVars, hierVars, parVars, agentVars,
                   usageVars, libVars>>

\* Promise.race resolves: a slot is free, the loop goes on
ParRaceResolved ==
    /\ cpc = "par_race"
    /\ HasPromise("fulfilled")
    /\ ~HasPromise("rejected")
    /\ executing' = ExecutingArray
    /\ cpc' = "par_launch"
    /\ UNCHANGED <<config, signal, trace, ensemble, beforeAgent, configHooks,
                   pos, agentResults, cerror, response>>
    /\ UNCHANGED <<seqVars, voteVars, debVars, hierVars, errors, agentVars,
                   usageVars, libVars>>

\* Promise.all resolves: errors without any result throw unless the mode is
\* continue, else the results are merged
ParFinish ==
    /\ cpc = "par_all"
    /\ \A i \in DOMAIN executing : executing[i].state = "fulfilled"
    /\ IF /\ Len(errors) > 0
          /\ config.errorMode # "continue"
          /\ Len(agentResults) = 0
       THEN /\ cpc' = "failed"
            /\ UNCHANGED configHooks
            /\ cerror' = errors[1]
            /\ UNCHANGED response
       ELSE /\ cpc' = "returned"
            /\ ConfigHooksFire("onComplete")
            /\ response' = mergeResults(agentResults, config.merger)
            /\ UNCHANGED cerror
    /\ UNCHANGED <<config, signal, trace, ensemble, beforeAgent, pos, agentResults>>
    /\ UNCHANGED <<seqVars, voteVars, debVars, hierVars, parVars, agentVars,
                   usageVars, libVars>>

CondNext ==
    \/ CondAbort
    \/ SeqBegin
    \/ SeqAbort
    \/ SeqNotFound
    \/ SeqStart
    \/ SeqAgentReturns
    \/ SeqAgentThrows
    \/ SeqReturn
    \/ VoteBegin
    \/ VoteProposeAbort
    \/ VoteProposeStart
    \/ VoteProposeReturns
    \/ VoteProposeThrows
    \/ VoteProposeDone
    \/ VoteCollectAbort
    \/ VoteCollectStart
    \/ VoteCollectReturns
    \/ VoteCollectThrows
    \/ VoteReturn
    \/ DebBegin
    \/ DebInitialAbort
    \/ DebInitialStart
    \/ DebInitialReturns
    \/ DebAgentThrows
    \/ DebInitialDone
    \/ DebRoundAbort
    \/ DebRoundEnter
    \/ DebRoundsOver
    \/ DebTurnAbort
    \/ DebTurnStart
    \/ DebTurnReturns
    \/ DebRoundEnd
    \/ DebJudgeMissing
    \/ DebJudgeStart
    \/ DebJudgeReturns
    \/ DebConsensusThrows
    \/ DebAgreementReturn
    \/ DebVotingBegin
    \/ DebVoteStart
    \/ DebVoteReturns
    \/ DebVoteReturn
    \/ HierNotFound
    \/ HierBegin
    \/ MgrAbort
    \/ MgrGenerate
    \/ MgrGenerateStop
    \/ MgrGenerateToolCalls
    \/ MgrGenerateThrows
    \/ DelegateLimit
    \/ DelegateUnknown
    \/ DelegateAborted
    \/ DelegateStart
    \/ DelegateReturns
    \/ DelegateThrows
    \/ MgrToolsDone
    \/ HierManagerRejects
    \/ HierReturn
    \/ ParBegin
    \/ ParLaunchAborted
    \/ ParLaunch
    \/ ParLaunched
    \/ ParAgentReturns
    \/ ParAgentThrows
    \/ ParRejected
    \/ ParRaceResolved
    \/ ParFinish

ConductorSpec == CondInit /\ [][CondNext]_vars

----------------------------------------------------------------------------
\* Usage accounting: totalUsage of createAgent.run, calculateTotalUsage

\* response.usage of a backend response: <<>> when missing; the last one
\* is a triple whose total is not prompt + completion
BackendUsages ==
    {<<>>,
     <<[promptTokens |-> 1, completionTokens |-> 2, totalTokens |-> 3]>>,
     <<[promptTokens |-> 1, completionTokens |-> 1, totalTokens |-> 5]>>}

\* an accumulator that keeps the latest usage only
AddUsage_latest(total, u) == IF u = <<>> THEN total ELSE u[1]

\* if (response.usage) { totalUsage.x += response.usage.x } for the three
\* counters
AddUsage(total, u) ==
    IF u = <<>> THEN total
    ELSE [promptTokens |-> total.promptTokens + u[1].promptTokens,
          completionTokens |-> total.completionTokens + u[1].completionTokens,
          totalTokens |-> total.totalTokens + u[1].totalTokens]

\* calculateTotalUsage: the sums over results.values()
RECURSIVE calculateTotalUsage(_)
calculateTotalUsage(results) ==
    IF results = <<>> THEN ZeroUsage
    ELSE AddUsage(calculateTotalUsage(SubSeq(results, 1, Len(results) - 1)),
                  <<results[Len(results)].usage>>)

\* agentResults.set(id, result), with the backend usages of the run kept
\* next to result.usage
SetUsageResult(results, id, u, log) ==
    IF \E i \in DOMAIN results : results[i].id = id
    THEN [i \in DOMAIN results |->
             IF results[i].id = id THEN [id |-> id, usage |-> u, log |-> log]
             ELSE results[i]]
    ELSE Append(results, [id |-> id, usage |-> u, log |-> log])

UsageInit ==
    /\ UsageIdle
    /\ LibIdle
    /\ AgentIdle
    /\ CondIdle

\* a conductor runs an agent, possibly one it has run before: run() starts
\* from the zero triple
UsageRunStart ==
    /\ upc = "idle"
    /\ \E id \in {"a", "b"} : usageId' = id
    /\ Len(usageResults) < MaxOrder
    /\ Len(usageSteps) < MaxOrder
    /\ usageLog' = <<>>
    /\ totalUsage' = ZeroUsage
    /\ upc' = "run"
    /\ UNCHANGED <<usageResults, ensembleUsage, usageSteps, agentVars, condVars,
                   libVars>>

\* a backend response arrives: its usage, if any, is added
UsageGenerate ==
    /\ upc = "run"
    /\ Len(usageLog) < MaxIter
    /\ \E u \in BackendUsages :
        /\ totalUsage' = AddUsage(totalUsage, u)
        /\ usageLog' = Append(usageLog, u)
    /\ UNCHANGED <<upc, usageId, usageResults, ensembleUsage, usageSteps, agentVars,
                   condVars, libVars>>

\* run() returns { usage: totalUsage }; runAgent records it as the output of
\* the step and the conductor stores the result under the agent's id
UsageRunReturns ==
    /\ upc = "run"
    /\ usageResults' = SetUsageResult(usageResults, usageId, totalUsage,
                                      usageLog)
    /\ usageSteps' = Append(usageSteps, <<totalUsage>>)
    /\ upc' = "idle"
    /\ UNCHANGED <<usageId, usageLog, totalUsage, ensembleUsage, agentVars,
                   condVars, libVars>>

\* createEnsembleResult: usage is calculateTotalUsage(agentResults)
UsageEnsembleResult ==
    /\ upc = "idle"
    /\ ensembleUsage' = <<calculateTotalUsage(usageResults)>>
    /\ upc' = "done"
    /\ UNCHANGED <<usageId, usageLog, totalUsage, usageResults, usageSteps, agentVars,
                   condVars, libVars>>

UsageNext ==
    \/ UsageRunStart
    \/ UsageGenerate
    \/ UsageRunReturns
    \/ UsageEnsembleResult

UsageSpec == UsageInit /\ [][UsageNext]_vars


----------------------------------------------------------------------------
\* collectVote's parsing and tallyVotes on their own (voting.ts): a list of
\* voters answers, each answer is parsed into a vote, the votes are tallied

\* most voters of a ballot
MaxBallots == 5

\* a response after split(/[,\s]+/): integers and words without digits
Num(n) == <<"int", n>>
Word == <<"word">>
BallotResponses ==
    {<<Num(3), Num(1), Num(2)>>, <<Num(1), Num(2), Num(3)>>,
     <<Num(2), Num(3), Num(1)>>, <<Num(7), Num(2)>>, <<Num(0)>>, <<Word>>}

\* the voting configurations: under the methods that read config.weights
\* the voter at position 2 may carry weight 2
BallotConfigs ==
    [method : {"majority", "weighted"},
     weights : {<<>>, <<[id \in {2} |-> 2]>>}]
    \cup [method : {"unanimous", "ranked"}, weights : {<<>>}]

BallotOptions ==
    {<<Str("red"), Str("blue")>>, <<Str("red"), Str("blue"), Str("green")>>}

\* the options and the configuration of a ballot; one ranked ballot is over
\* a list that holds the empty string
BallotInputs ==
    (BallotOptions \X BallotConfigs)
        \cup {<<<<Str(""), Str("blue")>>,
                [method |-> "ranked", weights |-> <<>>]>>}

\* the integers of a response, in order
Integers_of(tokens) ==
    LET nums == SelectSeq(tokens, LAMBDA t : t[1] = "int")
    IN  [k \in DOMAIN nums |-> nums[k][2]]

\* an index that is used as it was read
ValidIndex_asRead(choiceIndex, n) == choiceIndex

\* Math.max(0, Math.min(choiceIndex, votingOptions.length - 1))
ValidIndex(choiceIndex, n) == Max2(0, Min2(choiceIndex, n - 1))

\* collectVote, single choice: responseText.match(/(\d+)/), the index
\* clamped, votingOptions[validIndex] ?? ""
ParseSingle(agentId, tokens, options) ==
    LET ints == Integers_of(tokens)
        choiceIndex == IF ints # <<>> THEN ints[1] - 1 ELSE 0
        validIndex == ValidIndex(choiceIndex, Len(options))
    IN  [agentId |-> agentId,
         choice |-> IF (validIndex + 1) \in DOMAIN options
                    THEN options[validIndex + 1] ELSE Str(""),
         rank |-> <<>>]

\* collectVote, ranked: split, parseInt(s) - 1, the indices outside
\* 0..length-1 filtered out; choice votingOptions[ranks[0] ?? 0]
ParseRanked(agentId, tokens, options) ==
    LET ints == Integers_of(tokens)
        ranks == SelectSeq([k \in DOMAIN ints |-> ints[k] - 1],
                           LAMBDA n : n >= 0 /\ n < Len(options))
    IN  [agentId |-> agentId,
         choice |-> options[(IF ranks # <<>> THEN ranks[1] ELSE 0) + 1],
         rank |-> <<ranks>>]

\* collectVote: the vote parsed from the voter's response
ParseVote(agentId, tokens, options, cfg) ==
    IF cfg.method = "ranked" THEN ParseRanked(agentId, tokens, options)
    ELSE ParseSingle(agentId, tokens, options)

BallotInit ==
    /\ \E in \in BallotInputs :
          ballot = [pc |-> "collect", options |-> in[1], cfg |-> in[2],
                    responses |-> <<>>, votes |-> <<>>, result |-> <<>>]
    /\ AgentIdle
    /\ CondIdle
    /\ UsageIdle
    /\ CtxIdle
    /\ HandoffIdle
    /\ ChainIdle
    /\ ToolCallIdle

\* a voter's response is parsed and the vote is pushed
BallotCollectVote ==
    /\ ballot.pc = "collect"
    /\ Len(ballot.votes) < MaxBallots
    /\ \E r \in BallotResponses :
          ballot' = [ballot EXCEPT
                        !.responses = Append(@, r),
                        !.votes = Append(@, ParseVote(Len(ballot.votes) + 1, r,
                                                      ballot.options,
                                                      ballot.cfg))]
    /\ UNCHANGED <<agentVars, condVars, usageVars, ctx, handoff, chain, toolcall>>

\* the votes collected are tallied; a tally that never ends leaves the
\* caller waiting for it
BallotTally ==
    /\ ballot.pc = "collect"
    /\ LET tally == tallyVotes(ballot.votes, ballot.options, ballot.cfg)
       IN  ballot' = IF tally.winner = Forever
                     THEN [ballot EXCEPT !.pc = "tallying"]
                     ELSE [ballot EXCEPT !.pc = "tallied",
                                         !.result = <<tally>>]
    /\ UNCHANGED <<agentVars, condVars, usageVars, ctx, handoff, chain, toolcall>>

BallotNext == BallotCollectVote \/ BallotTally

BallotSpec == BallotInit /\ [][BallotNext]_vars


----------------------------------------------------------------------------
\* Shared context (context.ts, createContext): two contexts, the second
\* one created on its own or as the clone of the first

\* most operations applied to the contexts
MaxCtxOps == 4

\* config.maxHistoryLength and config.initialHistory of createContext;
\* messages are numbered in the order in which they come to exist
ContextConfigs ==
    [maxHistoryLength : {<<>>, <<1>>, <<2>>},
     initialHistory : {<<>>, <<1, 2, 3>>},
     initialData : {<<>>}]

\* the keys used with set and delete: "1" is an array index as a property
\* name, "x" is not
DataKeys == {"x", "1"}
IsIndexKey(k) == k = "1"

\* the agent ids passed to addMessage, <<>> when there is none
MessageAgents == {<<>>, <<"a">>, <<"b">>}

\* Object.fromEntries(map) followed by Object.entries: index keys come
\* first, the other keys follow in insertion order
ObjectFromEntries(pairs) ==
    SelectSeq(pairs, LAMBDA p : IsIndexKey(p[1]))
        \o SelectSeq(pairs, LAMBDA p : ~IsIndexKey(p[1]))

\* data.set(key, value): a known key keeps its position
MapSet(map, k, v) ==
    IF \E i \in DOMAIN map : map[i][1] = k
    THEN [i \in DOMAIN map |-> IF map[i][1] = k THEN <<k, v>> ELSE map[i]]
    ELSE Append(map, <<k, v>>)

\* data.delete(key)
MapDelete(map, k) == SelectSeq(map, LAMBDA p : p[1] # k)

\* agentMessages.get(agentId) ?? []
MapGet(map, k) ==
    IF \E i \in DOMAIN map : map[i][1] = k
    THEN map[CHOOSE i \in DOMAIN map : map[i][1] = k][2]
    ELSE <<>>

\* createContext(config): maxHistory is config.maxHistoryLength ?? 1000;
\* log remembers every message that was put into the history since it was
\* last emptied
createContext(cfg) ==
    [live |-> TRUE,
     data |-> ObjectFromEntries(cfg.initialData),
     history |-> cfg.initialHistory,
     agentMessages |-> <<>>,
     maxHistory |-> IF cfg.maxHistoryLength = <<>> THEN 1000
                    ELSE cfg.maxHistoryLength[1],
     log |-> cfg.initialHistory]

\* if (history.length > maxHistory) history.shift()
TrimHistory(history, maxHistory) ==
    IF Len(history) > maxHistory THEN Tail(history) ELSE history

\* addMessage(message, agentId) on a context record
addMessage(c, message, agentId) ==
    [c EXCEPT
        !.history = TrimHistory(Append(@, message), c.maxHistory),
        !.log = Append(@, message),
        !.agentMessages =
            IF agentId = <<>> THEN @
            ELSE MapSet(@, agentId[1],
                        Append(MapGet(@, agentId[1]), message))]

\* snapshot(): copies of data, history and every agent's messages (the
\* timestamp is left out)
snapshot(c) ==
    [data |-> ObjectFromEntries(c.data),
     history |-> c.history,
     agentMessages |-> ObjectFromEntries(c.agentMessages)]

\* a restore that keeps the history within the limit of the context
RestoreHistory_trimmed(c, s) ==
    IF Len(s.history) > c.maxHistory
    THEN SubSeq(s.history, Len(s.history) - c.maxHistory + 1, Len(s.history))
    ELSE s.history

\* history.length = 0; history.push(...snapshot.history)
RestoreHistory(c, s) == s.history

\* restore(snapshot)
restore(c, s) ==
    [c EXCEPT !.data = s.data,
              !.history = RestoreHistory(c, s),
              !.log = s.history,
              !.agentMessages = s.agentMessages]

\* clone(): a new context from the data, the history and maxHistory; then,
\* per agent, cloned.addMessage(msg, id) for the messages found while
\* cloned.getAgentMessages(id) is empty, which is the first one
RECURSIVE CloneAgentMessages(_, _)
CloneAgentMessages(cloned, agentMessages) ==
    IF agentMessages = <<>> THEN cloned
    ELSE LET id == agentMessages[1][1]
             msgs == agentMessages[1][2]
             next == IF msgs = <<>> THEN cloned
                     ELSE addMessage(cloned, msgs[1], <<id>>)
         IN  CloneAgentMessages(next, Tail(agentMessages))

clone(c) ==
    CloneAgentMessages(
        createContext([maxHistoryLength |-> <<c.maxHistory>>,
                       initialHistory |-> c.history,
                       initialData |-> ObjectFromEntries(c.data)]),
        c.agentMessages)

\* a clone made over the very history array of its original
CloneSharesHistory_sameArray == TRUE

\* initialHistory: [...history], and [...(config?.initialHistory ?? [])] in
\* createContext: the clone's history is an array of its own
CloneSharesHistory == FALSE

\* the other context
Other(i) == 3 - i

\* the contexts after context i has become c: a context that shares the
\* history array of i sees the same history
Written(i, c) ==
    [j \in 1..2 |->
        IF j = i THEN c
        ELSE IF ctx.shared /\ ctx.slots[j].live
        THEN [ctx.slots[j] EXCEPT !.history = c.history]
        ELSE ctx.slots[j]]

\* the first context is created from a configuration; the second one is
\* created too, without initial history, or left to be a clone
ContextInit ==
    /\ \E c1 \in ContextConfigs, c2 \in {<<>>, <<<<1>>>>} :
          ctx = [slots |-> <<createContext(c1),
                             IF c2 = <<>> THEN NoContext
                             ELSE createContext(
                                      [maxHistoryLength |-> c2[1],
                                       initialHistory |-> <<>>,
                                       initialData |-> <<>>])>>,
                 shared |-> FALSE, cloned |-> FALSE, snap |-> <<>>, ops |-> 0, nextMessage |-> 4,
                 lastOp |-> [name |-> "none", target |-> 0]]
    /\ AgentIdle
    /\ CondIdle
    /\ UsageIdle
    /\ BallotIdle
    /\ HandoffIdle
    /\ ChainIdle
    /\ ToolCallIdle

\* the step of an operation on context i that leaves it as c
Applied(name, i, c) ==
    [ctx EXCEPT !.slots = Written(i, c),
                !.ops = @ + 1,
                !.lastOp = [name |-> name, target |-> i]]

CanApply(i) == ctx.ops < MaxCtxOps /\ ctx.slots[i].live

\* set(key, value)
CtxSet(i) ==
    /\ CanApply(i)
    /\ \E k \in DataKeys :
          ctx' = Applied("set", i,
                         [ctx.slots[i] EXCEPT !.data = MapSet(@, k, ctx.ops)])
    /\ UNCHANGED <<agentVars, condVars, usageVars, ballot, handoff, chain, toolcall>>

\* delete(key)
CtxDelete(i) ==
    /\ CanApply(i)
    /\ ctx' = Applied("delete", i,
                      [ctx.slots[i] EXCEPT !.data = MapDelete(@, "x")])
    /\ UNCHANGED <<agentVars, condVars, usageVars, ballot, handoff, chain, toolcall>>

\* clear()
CtxClear(i) ==
    /\ CanApply(i)
    /\ ctx' = Applied("clear", i,
                      [ctx.slots[i] EXCEPT !.data = <<>>, !.history = <<>>,
                                           !.log = <<>>,
                                           !.agentMessages = <<>>])
    /\ UNCHANGED <<agentVars, condVars, usageVars, ballot, handoff, chain, toolcall>>

\* addMessage(message, agentId) with a new message
CtxAddMessage(i) ==
    /\ CanApply(i)
    /\ \E a \in MessageAgents :
          ctx' = [Applied("addMessage", i,
                          addMessage(ctx.slots[i], ctx.nextMessage, a))
                     EXCEPT !.nextMessage = @ + 1]
    /\ UNCHANGED <<agentVars, condVars, usageVars, ballot, handoff, chain, toolcall>>

\* snapshot(): the caller keeps the value
CtxSnapshot(i) ==
    /\ CanApply(i)
    /\ ctx' = [Applied("snapshot", i, ctx.slots[i])
                  EXCEPT !.snap = <<snapshot(ctx.slots[i])>>]
    /\ UNCHANGED <<agentVars, condVars, usageVars, ballot, handoff, chain, toolcall>>

\* restore(snapshot) with the snapshot the caller keeps
CtxRestore(i) ==
    /\ CanApply(i)
    /\ ctx.snap # <<>>
    /\ ctx' = Applied("restore", i, restore(ctx.slots[i], ctx.snap[1]))
    /\ UNCHANGED <<agentVars, condVars, usageVars, ballot, handoff, chain, toolcall>>

\* clone(): the second context comes to exist as the clone of the first
CtxClone ==
    /\ CanApply(1)
    /\ ~ctx.slots[2].live
    /\ ctx' = [ctx EXCEPT !.slots[2] = clone(ctx.slots[1]),
                          !.shared = CloneSharesHistory,
                          !.cloned = TRUE,
                          !.ops = @ + 1,
                          !.lastOp = [name |-> "clone", target |-> 2]]
    /\ UNCHANGED <<agentVars, condVars, usageVars, ballot, handoff, chain, toolcall>>

ContextNext ==
    \/ \E i \in 1..2 :
          \/ CtxSet(i)
          \/ CtxDelete(i)
          \/ CtxClear(i)
          \/ CtxAddMessage(i)
          \/ CtxSnapshot(i)
          \/ CtxRestore(i)
    \/ CtxClone

ContextSpec == ContextInit /\ [][ContextNext]_vars

----------------------------------------------------------------------------
\* Handoff tool (handoff.ts, createHandoffTool): calls of the tool's execute

\* most execute calls of one tool
MaxHandoffCalls == 2

\* config.targets
HandoffTargets == {<<"b">>, <<"b", "c">>}

\* args.target_agent, as the model that calls the tool writes it
TargetArgs == {"b", "c", GhostId}

\* a property that is undefined, and a value that refers to itself
Undef == <<"undefined">>
Circular == <<"circular">>
JBool(b) == <<"bool", b>>

\* how the handler settles: the HandoffResponse it resolves with, or what it
\* throws (an Error with a message, or a value that is not an Error)
HandlerOutcomes ==
    [kind : {"accepted"}, result : {Undef, Str("done")},
     data : {Undef, Str("data"), Circular},
     rejectionReason : {Undef}, thrown : {Undef}]
    \cup
    [kind : {"rejected"}, result : {Undef}, data : {Undef},
     rejectionReason : {Undef, Str("busy")}, thrown : {Undef}]
    \cup
    [kind : {"throws"}, result : {Undef}, data : {Undef},
     rejectionReason : {Undef},
     thrown : {<<"Error", Str("handler failed")>>, Str("boom"), Undef}]

\* JSON.stringify of an object given as its <<key, value>> entries: a
\* property that is undefined is left out; a circular value makes it throw
CanStringify(entries) == \A i \in DOMAIN entries : entries[i][2] # Circular
JSONStringify(entries) == SelectSeq(entries, LAMBDA e : e[2] # Undef)

\* String(v)
StringOf(v) == IF v = Undef THEN Str("undefined") ELSE v

\* error instanceof Error ? error : new Error(String(error)), its message
ErrorMessage(thrown) ==
    IF Len(thrown) = 2 /\ thrown[1] = "Error" THEN thrown[2]
    ELSE StringOf(thrown)

\* !targets.includes(target_agent) fails for every target
IsValidTarget_any(targets, target_agent) == TRUE

\* targets.includes(target_agent)
IsValidTarget(targets, target_agent) ==
    \E i \in DOMAIN targets : targets[i] = target_agent

\* the result for a target that is not declared
InvalidTargetResult(targets, target_agent) ==
    JSONStringify(<<<<"success", JBool(FALSE)>>,
                    <<"error", <<"Invalid target agent", target_agent,
                                 "Valid targets", targets>>>>>>)

\* the try block of execute once the handler has settled: the value it
\* returns, or what is thrown inside it
TryHandler(target_agent, outcome) ==
    LET accepted == <<<<"success", JBool(TRUE)>>,
                      <<"agent", Str(target_agent)>>,
                      <<"result", outcome.result>>,
                      <<"data", outcome.data>>>>
        rejected == <<<<"success", JBool(FALSE)>>,
                      <<"rejected", JBool(TRUE)>>,
                      <<"reason",
                        IF outcome.rejectionReason = Undef
                        THEN Str("Handoff rejected")
                        ELSE outcome.rejectionReason>>>>
    IN  CASE outcome.kind = "throws" ->
                [threw |-> TRUE, value |-> outcome.thrown]
          [] outcome.kind = "accepted" /\ ~CanStringify(accepted) ->
                [threw |-> TRUE,
                 value |-> <<"Error", Str("Converting circular structure to JSON")>>]
          [] outcome.kind = "accepted" ->
                [threw |-> FALSE, value |-> JSONStringify(accepted)]
          [] OTHER ->
                [threw |-> FALSE, value |-> JSONStringify(rejected)]

\* the catch block of execute
CatchHandler(thrown) ==
    [threw |-> FALSE,
     value |-> JSONStringify(<<<<"success", JBool(FALSE)>>,
                               <<"error", ErrorMessage(thrown)>>>>)]

\* what execute settles with once the handler has settled
ExecuteSettles(target_agent, outcome) ==
    LET try == TryHandler(target_agent, outcome)
    IN  IF try.threw THEN CatchHandler(try.value) ELSE try

HandoffInit ==
    /\ handoff \in [pc : {"ready"}, targets : HandoffTargets,
                    request : {<<>>}, calls : {<<>>}]
    /\ AgentIdle
    /\ CondIdle
    /\ UsageIdle
    /\ BallotIdle
    /\ CtxIdle
    /\ ChainIdle
    /\ ToolCallIdle

\* execute, up to the call of the handler: an undeclared target is answered
\* at once, otherwise the request is made and handed to the handler
HandoffExecute ==
    /\ handoff.pc = "ready"
    /\ Len(handoff.calls) < MaxHandoffCalls
    /\ \E target_agent \in TargetArgs :
          IF ~IsValidTarget(handoff.targets, target_agent)
          THEN handoff' =
                 [handoff EXCEPT !.calls = Append(@,
                      [target_agent |-> target_agent,
                       handlerCalled |-> FALSE,
                       outcome |-> <<>>,
                       threw |-> FALSE,
                       returned |-> InvalidTargetResult(handoff.targets,
                                                        target_agent)])]
          ELSE handoff' =
                 [handoff EXCEPT !.pc = "handler",
                                 !.request = <<[fromAgent |-> "current",
                                                toAgent |-> target_agent]>>]
    /\ UNCHANGED <<agentVars, condVars, usageVars, ballot, ctx, chain, toolcall>>

\* the handler settles and execute returns
HandoffHandlerSettles ==
    /\ handoff.pc = "handler"
    /\ \E outcome \in HandlerOutcomes :
          LET target_agent == handoff.request[1].toAgent
              settled == ExecuteSettles(target_agent, outcome)
          IN  handoff' =
                [handoff EXCEPT !.pc = "ready",
                                !.request = <<>>,
                                !.calls = Append(@,
                                    [target_agent |-> target_agent,
                                     handlerCalled |-> TRUE,
                                     outcome |-> <<outcome>>,
                                     threw |-> settled.threw,
                                     returned |-> settled.value])]
    /\ UNCHANGED <<agentVars, condVars, usageVars, ballot, ctx, chain, toolcall>>

HandoffNext == HandoffExecute \/ HandoffHandlerSettles

HandoffSpec == HandoffInit /\ [][HandoffNext]_vars

----------------------------------------------------------------------------
\* Handoff chain (handoff.ts, createHandoffChain): one call of the chain

\* most agent runs of one call that are explored
MaxChainRuns == 6

\* the agents of a chain: ids in order, each with or without shouldHandoff
ChainAgents ==
    UNION {[1..n -> [id : {"a", "b"}, shouldHandoff : BOOLEAN]] : n \in 0..2}

\* what shouldHandoff(response) may return: null or an agent id, which need
\* not be an id of the chain
HandoffAnswers == {Null, Str("a"), Str("b"), Str(GhostId)}

\* agents.findIndex((a) => a.id === nextAgentId), counted from zero
FindIndex(agents, nextAgentId) ==
    IF \E i \in DOMAIN agents : Str(agents[i].id) = nextAgentId
    THEN (CHOOSE i \in DOMAIN agents :
             /\ Str(agents[i].id) = nextAgentId
             /\ \A j \in 1..(i - 1) : Str(agents[j].id) # nextAgentId) - 1
    ELSE -1

ChainInit ==
    /\ chain \in [pc : {"loop"}, agents : ChainAgents, handoffs : {<<>>},
                  currentInput : {Input}, currentAgentIndex : {0},
                  result : {<<>>}]
    /\ AgentIdle
    /\ CondIdle
    /\ UsageIdle
    /\ BallotIdle
    /\ CtxIdle
    /\ HandoffIdle
    /\ ToolCallIdle

\* while (currentAgentIndex < agents.length): the id is pushed and the
\* agent is run
ChainRun ==
    /\ chain.pc = "loop"
    /\ chain.currentAgentIndex < Len(chain.agents)
    /\ Len(chain.handoffs) < MaxChainRuns
    /\ chain' = [chain EXCEPT
                    !.pc = "run",
                    !.handoffs =
                        Append(@, chain.agents[chain.currentAgentIndex + 1].id)]
    /\ UNCHANGED <<agentVars, condVars, usageVars, ballot, ctx, handoff, toolcall>>

\* agent.run resolved: shouldHandoff decides whether the chain jumps to the
\* agent it names or returns
ChainAgentReturns ==
    /\ chain.pc = "run"
    /\ \E r \in Responses, nextAgentId \in HandoffAnswers :
          LET currentAgent == chain.agents[chain.currentAgentIndex + 1]
              nextIndex == FindIndex(chain.agents, nextAgentId)
          IN  IF /\ currentAgent.shouldHandoff
                 /\ nextAgentId # Null
                 /\ nextIndex >= 0
              THEN chain' = [chain EXCEPT !.pc = "loop",
                                          !.currentAgentIndex = nextIndex,
                                          !.currentInput = r]
              ELSE chain' = [chain EXCEPT
                                !.pc = "returned",
                                !.result = <<[response |-> r,
                                              handoffs |-> chain.handoffs]>>]
    /\ UNCHANGED <<agentVars, condVars, usageVars, ballot, ctx, handoff, toolcall>>

\* agent.run rejected: the call of the chain rejects
ChainAgentThrows ==
    /\ chain.pc = "run"
    /\ chain' = [chain EXCEPT !.pc = "failed"]
    /\ UNCHANGED <<agentVars, condVars, usageVars, ballot, ctx, handoff, toolcall>>

\* the loop is left without a return: the chain has no agents
ChainFallsThrough ==
    /\ chain.pc = "loop"
    /\ chain.currentAgentIndex >= Len(chain.agents)
    /\ chain' = [chain EXCEPT
                    !.pc = "returned",
                    !.result = <<[response |-> chain.currentInput,
                                  handoffs |-> chain.handoffs]>>]
    /\ UNCHANGED <<agentVars, condVars, usageVars, ballot, ctx, handoff, toolcall>>

ChainNext ==
    \/ ChainRun
    \/ ChainAgentReturns
    \/ ChainAgentThrows
    \/ ChainFallsThrough

ChainSpec == ChainInit /\ [][ChainNext]_vars

----------------------------------------------------------------------------
\* One tool call in detail (agent.ts, executeToolCall; validation.ts): the
\* call's arguments, the tool hooks and the error messages

\* an error message, as its parts in order: plain text, an assignment
\* name=value, a path below a directory of users
Text(t) == <<"text", t>>
Assign(name, value) == <<"assign", name, value>>
UserPath(root, user) == <<"path", root, user>>

\* the first pattern of sanitizeError matches a name that holds one of
\* key, token, secret, password, credential
IsSecretName(name) == name \in {"token", "api_key", "password"}

\* sanitizeError: the value of a secret assignment and the user of a path
\* below /home or /Users are replaced by ***
sanitizeError(message) ==
    [i \in DOMAIN message |->
        LET part == message[i]
        IN  IF part[1] = "assign" /\ IsSecretName(part[2])
            THEN Assign(part[2], "***")
            ELSE IF part[1] = "path" /\ part[2] \in {"home", "Users"}
            THEN UserPath(part[2], "***")
            ELSE part]

\* what a tool or a hook may throw
ToolErrorMessages ==
    {<<Text("city not found")>>,
     <<Text("request failed"), Assign("token", "abc123"),
       Assign("count", "3"), UserPath("home", "alice")>>}
HookErrorMessage == <<Text("hook failed")>>

\* a number, and an object given by its <<key, value>> entries
JNum(n) == <<"num", n>>
JObject(entries) == <<"object", entries>>

\* toolCall.arguments as the backend sends them: a fitting object, an object
\* without the required field, one with a field of the wrong type, and a
\* string in place of the object
ToolArguments ==
    {JObject(<<<<"city", Str("Paris")>>>>), JObject(<<>>),
     JObject(<<<<"city", JNum(7)>>>>), Str("Paris")}

\* tool.parameters of get_weather
ToolParameters ==
    [required |-> <<"city">>, properties |-> <<<<"city", "string">>>>]

\* getJsonType(value)
getJsonType(value) ==
    CASE value[1] = "str" -> "string"
      [] value[1] = "num" -> "number"
      [] value[1] = "object" -> "object"
      [] OTHER -> "null"

\* key in obj
HasKey(entries, key) == \E i \in DOMAIN entries : entries[i][1] = key
ValueOf(entries, key) ==
    entries[CHOOSE i \in DOMAIN entries : entries[i][1] = key][2]

\* validateJsonSchema(value, schema): the value must be an object, holds
\* every required field, and every property it holds has the type of the
\* schema
validateJsonSchema(value, schema) ==
    IF value[1] # "object"
    THEN [valid |-> FALSE, errors |-> <<<<"Expected an object">>>>]
    ELSE LET obj == value[2]
             missing == SelectSeq(schema.required,
                                  LAMBDA f : ~HasKey(obj, f))
             mistyped == SelectSeq(schema.properties,
                                   LAMBDA p : /\ HasKey(obj, p[1])
                                              /\ getJsonType(ValueOf(obj, p[1]))
                                                     # p[2])
             found == [i \in DOMAIN missing |->
                           <<"Missing required field", missing[i]>>]
                       \o [i \in DOMAIN mistyped |->
                           <<"expected", mistyped[i][1], mistyped[i][2]>>]
         IN  [valid |-> found = <<>>, errors |-> found]

\* the hooks of the agent: each is unset, returns, or throws
ToolHooks ==
    [onBeforeToolCall : {"unset", "returns", "throws"},
     onAfterToolCall : {"unset", "returns", "throws"}]

\* the catch of executeToolCall: { error: errorMessage }
CatchToolCall(id, errorMessage) == ToolMessage(id, JsonError(errorMessage))

\* the tool message of a call that went through
ToolCallReturns(id, value) ==
    ToolMessage(id, IF IsString(value) THEN value ELSE JsonValue(value))

ToolCallInit ==
    /\ toolcall \in [pc : {"find"},
                     call : [id : {CallId(1)}, name : ToolNames,
                             arguments : ToolArguments],
                     hooks : ToolHooks,
                     events : {<<>>}, result : {<<>>}, thrown : {<<>>},
                     message : {<<>>}]
    /\ AgentIdle
    /\ CondIdle
    /\ UsageIdle
    /\ BallotIdle
    /\ CtxIdle
    /\ HandoffIdle
    /\ ChainIdle

\* ctx.config.tools?.find(...): an unknown tool is answered at once
ToolCallFind ==
    /\ toolcall.pc = "find"
    /\ IF toolcall.call.name # "get_weather"
       THEN toolcall' =
              [toolcall EXCEPT
                  !.pc = "done",
                  !.message = <<ToolMessage(toolcall.call.id,
                                    JsonError(<<Text("Tool not found")>>))>>]
       ELSE toolcall' = [toolcall EXCEPT !.pc = "before"]
    /\ UNCHANGED <<agentVars, condVars, usageVars, ballot, ctx, handoff, chain>>

\* hooks?.onBeforeToolCall?.(ctx, name, arguments), inside the try
ToolCallBeforeHook ==
    /\ toolcall.pc = "before"
    /\ toolcall' =
         CASE toolcall.hooks.onBeforeToolCall = "unset" ->
                [toolcall EXCEPT !.pc = "execute"]
           [] toolcall.hooks.onBeforeToolCall = "returns" ->
                [toolcall EXCEPT !.pc = "execute",
                                 !.events = Append(@, "onBeforeToolCall")]
           [] OTHER ->
                [toolcall EXCEPT
                    !.pc = "done",
                    !.events = Append(@, "onBeforeToolCall"),
                    !.thrown = <<HookErrorMessage>>,
                    !.message = <<CatchToolCall(toolcall.call.id,
                                                HookErrorMessage)>>]
    /\ UNCHANGED <<agentVars, condVars, usageVars, ballot, ctx, handoff, chain>>

\* tool.execute(toolCall.arguments) resolves
ToolCallExecuteReturns ==
    /\ toolcall.pc = "execute"
    /\ toolcall' = [toolcall EXCEPT
                       !.pc = "after",
                       !.events = Append(@, "execute"),
                       !.result = <<ToolResult(toolcall.call.name)>>]
    /\ UNCHANGED <<agentVars, condVars, usageVars, ballot, ctx, handoff, chain>>

\* tool.execute(toolCall.arguments) rejects: the catch makes the message
ToolCallExecuteThrows ==
    /\ toolcall.pc = "execute"
    /\ \E errorMessage \in ToolErrorMessages :
          toolcall' = [toolcall EXCEPT
                          !.pc = "done",
                          !.events = Append(@, "execute"),
                          !.thrown = <<errorMessage>>,
                          !.message = <<CatchToolCall(toolcall.call.id,
                                                      errorMessage)>>]
    /\ UNCHANGED <<agentVars, condVars, usageVars, ballot, ctx, handoff, chain>>

\* hooks?.onAfterToolCall?.(ctx, name, result), inside the try, and the
\* return of the tool message
ToolCallAfterHook ==
    /\ toolcall.pc = "after"
    /\ toolcall' =
         CASE toolcall.hooks.onAfterToolCall = "unset" ->
                [toolcall EXCEPT
                    !.pc = "done",
                    !.message = <<ToolCallReturns(toolcall.call.id,
                                                  toolcall.result[1])>>]
           [] toolcall.hooks.onAfterToolCall = "returns" ->
                [toolcall EXCEPT
                    !.pc = "done",
                    !.events = Append(@, "onAfterToolCall"),
                    !.message = <<ToolCallReturns(toolcall.call.id,
                                                  toolcall.result[1])>>]
           [] OTHER ->
                [toolcall EXCEPT
                    !.pc = "done",
                    !.events = Append(@, "onAfterToolCall"),
                    !.thrown = <<HookErrorMessage>>,
                    !.message = <<CatchToolCall(toolcall.call.id,
                                                HookErrorMessage)>>]
    /\ UNCHANGED <<agentVars, condVars, usageVars, ballot, ctx, handoff, chain>>

ToolCallNext ==
    \/ ToolCallFind
    \/ ToolCallBeforeHook
    \/ ToolCallExecuteReturns
    \/ ToolCallExecuteThrows
    \/ ToolCallAfterHook

ToolCallSpec == ToolCallInit /\ [][ToolCallNext]_vars

----------------------------------------------------------------------------
\* Claims about the agent loop (checked under Spec)

IsStopOnly == \A k \in DOMAIN finishLog : finishLog[k].finishReason = "stop"

\* the execLog entries of the k-th generate response, in execution order
ExecOf(k) == SelectSeq(execLog, LAMBDA e : e.generation = k)

\* C1: every returned result has 1 <= iterations <= maxIterations, and
\* iterations is the number of generate calls made, whatever maxIterations
\* is configured.
C1_IterationsWithinBounds ==
    pc = "returned" =>
        /\ result.iterations = generateCalls
        /\ 1 <= result.iterations
        /\ result.iterations <= maxIterations

\* C2: a tool-level failure (unregistered name, or an executor that throws)
\* never fails the run: it yields exactly one tool message, for that call,
\* whose content is a JSON object with an error field; the other calls of the
\* same assistant message are still dispatched; and a failed run failed at the
\* backend call or at the cancellation check, never in the tool round.
C2_ToolFailureReported ==
    /\ \A n \in DOMAIN execLog :
          LET e == execLog[n]
          IN  /\ e.index \in DOMAIN messages
              /\ messages[e.index].role = "tool"
              /\ messages[e.index].toolCallId = e.call.id
              /\ e.failed => IsJsonErrorObject(messages[e.index].content)
              /\ \A m \in DOMAIN execLog : m # n => execLog[m].index # e.index
    /\ Cardinality({i \in DOMAIN messages : messages[i].role = "tool"})
          = Len(execLog)
    /\ \A k \in DOMAIN finishLog :
          (finishLog[k].finishReason = "tool_calls"
             /\ ~(k = Len(finishLog) /\ pc = "tools"))
          => Len(ExecOf(k)) = Len(messages[finishLog[k].index].toolCalls)
    /\ pc = "failed" =>
          \/ error = "backend" /\ generateCalls = Len(finishLog) + 1
          \/ error = "aborted" /\ aborted /\ generateCalls = Len(finishLog)

\* C2 witness: the first of two calls failed, the second was dispatched all
\* the same, and the next backend call has been issued.
C2_Witness ==
    /\ pc = "generate"
    /\ generateCalls = 2
    /\ Len(execLog) = 2
    /\ execLog[1].failed
    /\ execLog[1].generation = 1 /\ execLog[2].generation = 1

\* C3: in every AgentResult, each tool message is preceded by an assistant
\* message one of whose tool calls has the tool message's toolCallId as id.
C3_ToolMessageAnswersCall ==
    pc = "returned" =>
        \A i \in DOMAIN result.messages :
            result.messages[i].role = "tool" =>
                \E j \in 1..(i - 1) :
                    /\ result.messages[j].role = "assistant"
                    /\ \E c \in DOMAIN result.messages[j].toolCalls :
                          result.messages[j].toolCalls[c].id
                              = result.messages[i].toolCallId

\* C3 witness: a returned result that holds a tool message.
C3_Witness ==
    /\ pc = "returned"
    /\ \E i \in DOMAIN result.messages : result.messages[i].role = "tool"

\* C4: the calls c1..cn of a tool_calls response are executed one at a time
\* in that order, the i-th tool message appended after the assistant message
\* carries ci.id, exactly n are appended, and all n are in place before the
\* next backend call is issued.
C4_ToolCallsInOrder ==
    \A k \in DOMAIN finishLog :
        finishLog[k].finishReason = "tool_calls" =>
            LET p == finishLog[k].index
                calls == messages[p].toolCalls
                n == Len(calls)
                running == k = Len(finishLog) /\ pc = "tools"
                completed == IF running THEN toolIdx - 1 ELSE n
            IN  /\ Len(ExecOf(k)) = completed
                /\ \A i \in 1..completed :
                      /\ messages[p + i].role = "tool"
                      /\ messages[p + i].toolCallId = calls[i].id
                      /\ ExecOf(k)[i].call = calls[i]
                      /\ ExecOf(k)[i].index = p + i
                /\ k < Len(finishLog) => finishLog[k + 1].index = p + n + 1
                /\ k = Len(finishLog) => Len(messages) = p + completed
                /\ generateCalls > k => completed = n

\* C4 witness: two calls of one assistant message were dispatched and the
\* next backend call is in flight.
C4_Witness ==
    /\ pc = "generate"
    /\ generateCalls = 2
    /\ Len(messages[3].toolCalls) = 2
    /\ Len(messages) = 5

\* C5 as stated: the response is the content of the last assistant message
\* ("" when null), also when the loop ended by reaching maxIterations after
\* a tool-call round.
C5_ResponseIsLastAssistantContent ==
    pc = "returned" =>
        result.response =
            (IF LastAssistantIndex(result.messages) = 0 THEN Str("")
             ELSE ContentOrEmpty(
                     result.messages[LastAssistantIndex(result.messages)].content))

\* C5 amended: the response is the content of the last assistant message
\* ("" when null) when the loop ended on a non-tool finish reason or its
\* last tool-call round dispatched no tool; it is "" when the loop ended by
\* reaching maxIterations after a round that appended a tool message, and
\* when the result holds no assistant message.
C5_ResponseOfFinishedRun ==
    pc = "returned" =>
        LET msgs == result.messages
            a == LastAssistantIndex(msgs)
        IN  IF a = 0 \/ a < Len(msgs)
            THEN /\ result.response = Str("")
                 /\ ~done
            ELSE result.response = ContentOrEmpty(msgs[a].content)

\* C5 witness: maxIterations was reached after a tool-call round whose
\* assistant message carried text; the response is nevertheless "".
C5_Witness ==
    /\ pc = "returned"
    /\ ~done
    /\ result.iterations = maxIterations
    /\ result.messages[Len(result.messages)].role = "tool"
    /\ result.messages[LastAssistantIndex(result.messages)].content = Str("text")
    /\ result.response = Str("")

\* C6: the cancel signal is checked at the top of every iteration: with the
\* signal aborted there, run fails 'aborted' and makes no backend call; so
\* once the signal is aborted no further backend call is issued.
C6_CancelCheckedEachIteration ==
    [][/\ aborted => generateCalls' = generateCalls
       /\ (pc = "loop" /\ aborted /\ ~done /\ iteration < maxIterations)
             => (pc' = "failed" /\ error' = "aborted")]_vars

\* C6 witness: the signal was aborted during backend call 1, which asked
\* for a tool; run failed 'aborted' without a second backend call.
C6_Witness ==
    /\ pc = "failed"
    /\ error = "aborted"
    /\ generateCalls = 1
    /\ messages[Len(messages)].role = "tool"

\* C7: whenever run fails, by a backend error or by cancellation, onError
\* has been fired exactly once before the error is re-raised.
C7_OnErrorFiredOnEveryFailure ==
    pc = "failed" => onErrorCalls = 1

\* C8: a run against a backend that only answers stop makes exactly one
\* backend call and returns iterations == 1 with messages
\* [system, user, assistant].
C8_StopOnlyRunsOnce ==
    (pc = "returned" /\ IsStopOnly) =>
        /\ generateCalls = 1
        /\ result.iterations = 1
        /\ Len(result.messages) = 3
        /\ result.messages[1] = SystemMessage(Str("systemPrompt"))
        /\ result.messages[2] = UserMessage(Str("input"))
        /\ result.messages[3].role = "assistant"

----------------------------------------------------------------------------
\* Claims about the conductors (checked under ConductorSpec)

\* C9: in the sequential strategy over [r1..rn], r1 receives the original
\* input; r(k+1) receives transform(output_k, r(k+1)) when a transform is
\* configured and output_k otherwise; transform is applied once between each
\* pair of steps and never before the first; the response is output_n.
C9_SequentialPipesOutputs ==
    config.strategy = "sequential" =>
        LET order == ExecutionOrder(config)
        IN  /\ \A k \in DOMAIN trace :
                  /\ trace[k].agentId = order[k]
                  /\ k = 1 => trace[k].input = Input
                  /\ k > 1 =>
                        trace[k].input =
                            IF config.transform
                            THEN Transform(trace[k - 1].output, order[k])
                            ELSE trace[k - 1].output
            /\ Len(transformLog) =
                  IF config.transform /\ Len(trace) > 1 THEN Len(trace) - 1 ELSE 0
            /\ \A t \in DOMAIN transformLog :
                  transformLog[t] = [output |-> trace[t].output,
                                     role |-> order[t + 1]]
            /\ (cpc = "returned" /\ Len(order) >= 1) =>
                  /\ Len(trace) = Len(order)
                  /\ response = trace[Len(trace)].output

\* C9 witness: a three-agent pipeline with a transform has returned.
C9_Witness ==
    /\ config.strategy = "sequential"
    /\ config.transform
    /\ cpc = "returned"
    /\ Len(trace) = 3
    /\ Len(transformLog) = 2

\* C10: in every built-in conductor, once the cancel signal has tripped no
\* new agent step is started: no step is appended to the trace and no
\* further onBeforeAgent fires.
C10_NoStepAfterCancel ==
    [][signal => /\ Len(trace') = Len(trace)
                 /\ Len(beforeAgent') = Len(beforeAgent)]_vars

----------------------------------------------------------------------------
\* Claims about the parallel strategy (checked under ConductorSpec)

\* the agent runs in flight: started and not yet settled
InFlight == {i \in DOMAIN trace : trace[i].status = "running"}

\* C11: in the parallel strategy with concurrency c >= 1 at most c agent
\* runs are in flight at every instant, whatever the order of completions;
\* with c = 1 the agents are started in selection order and each one has
\* settled before the next one is started.
C11_AtMostConcurrencyInFlight ==
    (config.strategy = "parallel" /\ config.concurrency # <<>>
        /\ config.concurrency[1] >= 1) =>
        /\ Cardinality(InFlight) <= config.concurrency[1]
        /\ config.concurrency[1] = 1 =>
              /\ \A k \in DOMAIN trace :
                    trace[k].agentId = AgentsToRun(config)[k]
              /\ \A k \in 1..(Len(trace) - 1) : trace[k].status # "running"

\* C11 witness: three agents under concurrency 2; the third was started
\* after one of the first two settled and runs next to the other one.
C11_Witness ==
    /\ config.strategy = "parallel"
    /\ config.concurrency = <<2>>
    /\ Len(trace) = 3
    /\ Cardinality(InFlight) = 2
    /\ trace[3].status = "running"

\* the entries of agentResults in the order the agents were selected
ResultsInSelectionOrder ==
    LET ids == AgentsToRun(config)
        has(id) == \E i \in DOMAIN agentResults : agentResults[i].id = id
        entry(id) == agentResults[CHOOSE i \in DOMAIN agentResults :
                                     agentResults[i].id = id]
        kept == SelectSeq(ids, has)
    IN  [k \in DOMAIN kept |-> entry(kept[k])]

\* C12: for fixed per-agent results and a fixed merger, the merged output of
\* the parallel strategy is the same for every completion order: it is what
\* the merger makes of the results taken in selection order.
C12_MergeIndependentOfCompletionOrder ==
    (config.strategy = "parallel" /\ cpc = "returned") =>
        response = mergeResults(ResultsInSelectionOrder, config.merger)

\* every selected agent was run and every one of them failed
AllSelectedFailed ==
    /\ Len(AgentsToRun(config)) > 0
    /\ Len(errors) = Len(AgentsToRun(config))

\* C13: in the parallel strategy, if every selected agent fails, the run
\* raises the first error, whatever the errorMode.
C13_AllFailedRaisesFirstError ==
    (config.strategy = "parallel" /\ AllSelectedFailed
        /\ cpc \in {"returned", "failed"}) =>
        /\ cpc = "failed"
        /\ cerror = errors[1]

\* the steps of the trace whose agent returned
Succeeded == {k \in DOMAIN trace : trace[k].status = "output"}

\* C14: in the parallel strategy with errorMode continue a failing agent
\* keeps no other selected agent from being run (only cancellation makes
\* the run fail); when the run returns, every selected agent was run,
\* agentResults holds exactly the selected agents that succeeded, each with
\* its own output, and the merged response is made of these results only.
C14_ContinueOmitsFailedAgents ==
    (config.strategy = "parallel" /\ config.errorMode = "continue") =>
        /\ cpc = "failed" => (signal /\ cerror = "aborted")
        /\ cpc = "returned" =>
              /\ Len(trace) = Len(AgentsToRun(config))
              /\ \A k \in DOMAIN trace :
                    trace[k].agentId = AgentsToRun(config)[k]
              /\ Len(agentResults) = Cardinality(Succeeded)
              /\ \A i \in DOMAIN agentResults :
                    \E k \in Succeeded :
                        /\ trace[k].agentId = agentResults[i].id
                        /\ trace[k].output = agentResults[i].response
              /\ response = IF Succeeded = {} THEN Str("")
                            ELSE <<config.merger, agentResults>>

\* C14 witness: under continue the first agent failed, a later one was
\* still run and succeeded, and the run returned its result alone.
C14_Witness ==
    /\ config.strategy = "parallel"
    /\ config.errorMode = "continue"
    /\ cpc = "returned"
    /\ trace[1].status = "error"
    /\ Len(agentResults) = 1
    /\ Cardinality(Succeeded) = 1

----------------------------------------------------------------------------
\* Claims about the trace, delegation, debate and voting
\* (checked under ConductorSpec)

\* C15: in the trace kept by runAgent, a step whose agent call has settled
\* carries exactly one of output and error, never both and never neither,
\* and its duration is set; step.index is the step's position in
\* trace.steps, also when agents run concurrently.
C15_StepEndsWithOutputOrError ==
    \A k \in DOMAIN trace :
        /\ trace[k].index = k - 1
        /\ trace[k].status # "running" =>
              /\ (trace[k].output # Null) # trace[k].error
              /\ trace[k].duration

----------------------------------------------------------------------------
\* Claims about usage accounting (checked under UsageSpec)

\* the sum of a sequence of numbers
RECURSIVE SumSeq(_)
SumSeq(ns) == IF ns = <<>> THEN 0 ELSE ns[1] + SumSeq(Tail(ns))

\* the element-wise sum of the usages of a log, a missing one counting zero
SumOfLog(log) ==
    LET present == SelectSeq(log, LAMBDA u : u # <<>>)
    IN  [promptTokens |->
             SumSeq([i \in DOMAIN present |-> present[i][1].promptTokens]),
         completionTokens |->
             SumSeq([i \in DOMAIN present |-> present[i][1].completionTokens]),
         totalTokens |->
             SumSeq([i \in DOMAIN present |-> present[i][1].totalTokens])]

\* totalTokens == promptTokens + completionTokens
IsConsistent(u) == u.totalTokens = u.promptTokens + u.completionTokens

\* C16: usage accounting is additive: an agent result's usage is the
\* element-wise sum of the usages of the backend responses of its run, a
\* missing usage counting zero; the ensemble usage is the element-wise sum
\* over the entries of agentResults; so totalTokens = promptTokens +
\* completionTokens holds in every result when it holds in every backend
\* response.
C16_UsageIsAdditive ==
    /\ upc = "run" => totalUsage = SumOfLog(usageLog)
    /\ \A i \in DOMAIN usageResults :
          /\ usageResults[i].usage = SumOfLog(usageResults[i].log)
          /\ (\A k \in DOMAIN usageResults[i].log :
                 usageResults[i].log[k] # <<>> =>
                     IsConsistent(usageResults[i].log[k][1]))
                => IsConsistent(usageResults[i].usage)
    /\ ensembleUsage # <<>> =>
          /\ ensembleUsage[1] =
                SumOfLog([i \in DOMAIN usageResults |->
                             <<usageResults[i].usage>>])
          /\ (\A i \in DOMAIN usageResults :
                 IsConsistent(usageResults[i].usage))
                => IsConsistent(ensembleUsage[1])

\* C16 witness: an ensemble result over two agents; one run saw a response
\* without usage and then one with usage.
C16_Witness ==
    /\ upc = "done"
    /\ Len(usageResults) = 2
    /\ \E i \in DOMAIN usageResults :
          /\ Len(usageResults[i].log) = 2
          /\ usageResults[i].log[1] = <<>>
          /\ usageResults[i].usage.totalTokens = 3
    /\ ensembleUsage[1].totalTokens = 6

----------------------------------------------------------------------------
\* Claims about delegation, debate and voting (checked under ConductorSpec)

\* the steps of the workers a hierarchical run has started
WorkerSteps == {k \in DOMAIN trace : k # manager.step}

\* config.maxDelegations, 10 when it is not set
DelegationLimit ==
    IF config.maxDelegations = <<>> THEN 10 ELSE config.maxDelegations[1]

\* C17, in every state of a hierarchical run: at most maxDelegations worker
\* runs were started, every delegate_task invocation has returned a result,
\* and an invocation beyond the limit returned success:false without
\* running a worker.
DelegationsWithinLimit ==
    config.strategy = "hierarchical" =>
        /\ Cardinality(WorkerSteps) <= DelegationLimit
        /\ cpc # "del_run" => Len(manager.results) = manager.delegations
        /\ \A n \in DOMAIN manager.results :
              n > DelegationLimit =>
                  /\ ~manager.results[n].success
                  /\ manager.results[n].step = 0

\* C17, for every step of a hierarchical run: while the manager's tool
\* calls are dispatched the run does not fail: a refused delegation, an
\* unknown worker or a failed worker leave the manager in its loop.
DelegationKeepsLoop ==
    (config.strategy = "hierarchical" /\ cpc \in {"mgr_tools", "del_run"}) =>
        cpc' \in {"mgr_tools", "del_run", "mgr_loop"}

\* C17: in a hierarchical run at most maxDelegations (default 10) worker
\* runs are started; every invocation of delegate_task beyond the limit
\* returns success:false without running a worker; and neither that nor an
\* unknown worker id nor a worker failure aborts the manager's loop.
C17_DelegationsBounded ==
    [](DelegationsWithinLimit) /\ [][DelegationKeepsLoop]_vars

\* C17 witness: with maxDelegations 1 the manager delegated three times:
\* one worker ran, a later invocation was refused, and the run returned.
C17_Witness ==
    /\ config.strategy = "hierarchical"
    /\ config.maxDelegations = <<1>>
    /\ cpc = "returned"
    /\ manager.delegations >= 3
    /\ Cardinality(WorkerSteps) = 1
    /\ manager.results[3].error = "Maximum delegation limit reached"

\* the debaters of the run in the order config.debaters lists them (the
\* registered agents when it is unset), unknown ids left out
ListedDebaters ==
    LET ids == IF config.debaters = <<>> THEN Agents ELSE config.debaters[1]
    IN  SelectSeq(ids, IsRegistered)

\* the same debaters in the order in which the agents were registered
RegisteredDebaters ==
    LET Listed(id) == \E i \in DOMAIN ListedDebaters : ListedDebaters[i] = id
    IN  SelectSeq(Agents, Listed)

\* the statement debater j of order has made last when debater i is
\* prompted in round r: this round's for j < i, the round before for the
\* others (round 0 holds the initial statements)
LatestStatement(order, r, i, j) ==
    LET n == Len(order)
    IN  trace[IF j < i THEN n * r + j ELSE n * (r - 1) + j].output

\* the latest statements of the debaters other than i, in the given order
LatestOfOthers(order, r, i) ==
    [k \in 1..(Len(order) - 1) |->
        LET j == IF k < i THEN k ELSE k + 1
        IN  [id |-> order[j], statement |-> LatestStatement(order, r, i, j)]]

\* the rounds whose last debater has returned a statement
RoundsHeld(order) ==
    LET n == Len(order)
    IN  Cardinality({r \in 1..config.maxRounds :
                        /\ Len(trace) >= n * r + n
                        /\ trace[n * r + n].status = "output"})

\* a debate over the debaters in the given order: n initial statements,
\* then rounds in which each debater is run once, in that order, on a
\* prompt made of every other debater's latest statement and its own;
\* onDebateRound is fired once per round, after its last debater, with the n statements of that
\* round; and a debate that returns has held maxRounds rounds unless a
\* round of the agreement strategy ended it early
DebateRunsInOrder(order) ==
    (config.strategy = "debate" /\ Len(order) >= 2) =>
        LET n == Len(order)
            held == RoundsHeld(order)
        IN  /\ \A k \in DOMAIN trace :
                  k <= n * (1 + config.maxRounds) =>
                      LET i == ((k - 1) % n) + 1
                          r == (k - 1) \div n
                      IN  /\ trace[k].agentId = order[i]
                          /\ trace[k].input =
                                IF r = 0
                                THEN <<"initialPrompt", Input>>
                                ELSE <<"roundPrompt", r, Input,
                                       LatestOfOthers(order, r, i),
                                       LatestStatement(order, r, i, i)>>
            /\ Len(debate.roundLog) <= held
            /\ Len(trace) > n * (1 + held) => Len(debate.roundLog) = held
            /\ \A q \in DOMAIN debate.roundLog :
                  /\ debate.roundLog[q].round = q
                  /\ debate.roundLog[q].statements =
                        [j \in 1..n |->
                            [id |-> order[j],
                             statement |-> trace[n * q + j].output]]
            /\ cpc = "returned" =>
                  /\ Len(debate.roundLog) = held
                  /\ \/ held = config.maxRounds
                     \/ /\ config.consensusStrategy = "agreement"
                        /\ held >= 1
                        /\ checkAgreementConsensus(
                               debate.roundLog[held].statements)

\* C18: a debate over n debaters with maxRounds = R first collects n
\* initial statements; then, without early consensus exit, holds exactly R
\* rounds in which each debater is run exactly once, in registration
\* order, with a prompt built from the latest statement of each other
\* debater; onDebateRound fires exactly once per round, after the last
\* debater, with that round's n statements.
C18_DebateRoundsInRegistrationOrder == DebateRunsInOrder(RegisteredDebaters)

\* C18 as the code has it: the debaters are run in the order of
\* config.debaters when it is set, in registration order only when it is
\* not; the rest of the statement stands.
C18_DebateRoundsInListedOrder == DebateRunsInOrder(ListedDebaters)

\* C18 witness: a debate over debaters listed against the registration
\* order returned after its full rounds, the first debater having changed
\* its statement in round 1, and onDebateRound has fired for every round.
C18_Witness ==
    /\ config.strategy = "debate"
    /\ config.debaters = <<<<"b", "a">>>>
    /\ config.maxRounds >= 1
    /\ cpc = "returned"
    /\ Len(debate.roundLog) = config.maxRounds
    /\ trace[3].output # trace[1].output
    /\ trace[4].agentId = "a"

\* the number of counted votes for a debater id
VotesFor(id) ==
    Cardinality({v \in DOMAIN debate.votes : debate.votes[v].choice = id})

\* the debater ids with the most votes, none when no vote was counted
TopVoted ==
    {ListedDebaters[i] : i \in
        {i \in DOMAIN ListedDebaters :
            /\ VotesFor(ListedDebaters[i]) > 0
            /\ \A j \in DOMAIN ListedDebaters :
                  VotesFor(ListedDebaters[j]) <= VotesFor(ListedDebaters[i])}}

\* the last statement of the debater at position i
FinalPosition(i) == debate.allStatements[i][Len(debate.allStatements[i])]

\* the labeled concatenation of all debaters' final positions
LabeledFinalPositions ==
    <<"No consensus reached. Final positions:",
      [i \in DOMAIN ListedDebaters |->
          [id |-> ListedDebaters[i], statement |-> FinalPosition(i)]]>>

\* C19: under the debate 'voting' consensus the debater id with strictly
\* the most votes wins: the response of a returned debate is that
\* debater's final statement; when two or more ids tie for the most votes,
\* or no vote matches a debater id, the response is the labeled
\* concatenation of all debaters' final positions.
C19_VotingConsensusStrictPlurality ==
    (/\ config.strategy = "debate"
     /\ config.consensusStrategy = "voting"
     /\ cpc = "returned") =>
        IF Cardinality(TopVoted) = 1
        THEN \E i \in DOMAIN ListedDebaters :
                /\ ListedDebaters[i] \in TopVoted
                /\ response = FinalPosition(i)
        ELSE response = LabeledFinalPositions

\* the voter ids of the configuration, all agents when none are set
ConfiguredVoters == IF config.voters = <<>> THEN Agents ELSE config.voters[1]

\* the configured voter ids that resolve to registered agents
ActiveVoters ==
    Cardinality({i \in DOMAIN ConfiguredVoters :
                    IsRegistered(ConfiguredVoters[i])})

\* ceil(|voters| * quorum) over the configured voters, quorum 1/2 by default
QuorumNeeded ==
    LET q == IF config.quorum = <<>> THEN <<1, 2>> ELSE config.quorum[1]
    IN  (Len(ConfiguredVoters) * q[1] + q[2] - 1) \div q[2]

\* C20: a voting run fails with quorum-not-met, before any agent is run,
\* whenever the number of active voters (configured voter ids that resolve
\* to registered agents) is less than ceil(|voters| * quorum), |voters|
\* being the number of configured voters and quorum 0.5 by default;
\* otherwise it does not fail with quorum-not-met.
C20_QuorumOverConfiguredVoters ==
    (config.strategy = "voting" /\ cpc # "start") =>
        IF ActiveVoters < QuorumNeeded
        THEN /\ cpc = "failed"
             /\ cerror = "quorum-not-met"
             /\ trace = <<>>
        ELSE cerror # "quorum-not-met"

----------------------------------------------------------------------------
\* Claims about the voting strategy (checked under ConductorSpec)

\* the distinct entries of a list
Distinct(list) == {list[i] : i \in DOMAIN list}

\* the proposals the voters have returned so far, in the order of the trace
Proposals ==
    LET asked == SelectSeq(trace,
                           LAMBDA s : /\ s.input = <<"proposalPrompt", Input>>
                                      /\ s.status = "output")
    IN  [k \in DOMAIN asked |-> asked[k].output]

\* a list without its repeated entries, first occurrences kept in order
RECURSIVE DropDuplicates(_)
DropDuplicates(list) ==
    IF list = <<>> THEN <<>>
    ELSE LET front == DropDuplicates(SubSeq(list, 1, Len(list) - 1))
             last == list[Len(list)]
         IN  IF last \in Distinct(front) THEN front ELSE Append(front, last)

\* the option list of the run once it is known: the caller's, or the
\* generated one when every voter has proposed
OptionListKnown ==
    \/ config.options # <<>> /\ cpc # "start"
    \/ config.options = <<>> /\ Len(Proposals) = Len(Voters(config))
                             /\ cpc \notin {"start", "vote_propose_run"}
                             /\ ~(cpc = "vote_propose" /\ pos <= Len(Voters(config)))

OptionList ==
    IF config.options # <<>> THEN config.options[1]
    ELSE DropDuplicates(Proposals)

\* C21: votes are collected only when the option list (the caller's, or
\* the voters' proposals without duplicates, in proposal order) holds at
\* least two distinct options; otherwise the run fails with
\* insufficient-options and no vote is collected.
C21_VotesNeedTwoDistinctOptions ==
    (/\ config.strategy = "voting"
     /\ cerror \notin {"quorum-not-met", "aborted"}
     /\ OptionListKnown /\ ~(cpc = "vote_propose")) =>
        /\ config.options = <<>> => voting.generatedOptions = OptionList
        /\ IF Cardinality(Distinct(OptionList)) >= 2
           THEN cerror # "insufficient-options"
           ELSE /\ cpc = "failed"
                /\ cerror = "insufficient-options"
                /\ voting.votes = <<>>

----------------------------------------------------------------------------
\* Claims about vote parsing and tallies (checked under BallotSpec)

\* an option number brought into 1..n: below-range becomes 1, above-range n
Clamped(number, n) == IF number < 1 THEN 1 ELSE IF number > n THEN n ELSE number

\* the integers a voter's response holds
NumbersRead(k) ==
    LET nums == SelectSeq(ballot.responses[k], LAMBDA t : t # Word)
    IN  [i \in DOMAIN nums |-> nums[i][2]]

\* the integers of a response that name an option
NumbersInRange(k) ==
    SelectSeq(NumbersRead(k), LAMBDA n : n >= 1 /\ n <= Len(ballot.options))

\* the choice of vote k is the clamped first integer, option 1 without one
ChoiceIsFirstClamped(k) ==
    ballot.votes[k].choice =
        ballot.options[IF NumbersRead(k) = <<>> THEN 1
                       ELSE Clamped(NumbersRead(k)[1], Len(ballot.options))]

\* C22: vote parsing is defensive for single-choice and for ranked
\* ballots: every integer read from a voter's response is clamped into
\* 1..|options| (below-range becomes option 1, above-range the last
\* option), a response without an integer counts as option 1, and so every
\* recorded vote's choice is an element of the option list.
C22_EveryIntegerClamped ==
    \A k \in DOMAIN ballot.votes :
        /\ ChoiceIsFirstClamped(k)
        /\ ballot.cfg.method = "ranked" =>
              ballot.votes[k].rank =
                  <<[i \in DOMAIN NumbersRead(k) |->
                        Clamped(NumbersRead(k)[i], Len(ballot.options)) - 1]>>
        /\ \E o \in DOMAIN ballot.options :
              ballot.votes[k].choice = ballot.options[o]

\* C22 as the code has it: a single-choice ballot clamps its first integer
\* into 1..|options|; a ranked ballot drops the integers outside
\* 1..|options| and votes for the first one left; without an integer (left)
\* the vote is for option 1; every recorded choice is one of the options.
C22_ClampedOrDropped ==
    \A k \in DOMAIN ballot.votes :
        /\ ballot.cfg.method # "ranked" => ChoiceIsFirstClamped(k)
        /\ ballot.cfg.method = "ranked" =>
              /\ ballot.votes[k].rank =
                    <<[i \in DOMAIN NumbersInRange(k) |->
                          NumbersInRange(k)[i] - 1]>>
              /\ ballot.votes[k].choice =
                    ballot.options[IF NumbersInRange(k) = <<>> THEN 1
                                   ELSE NumbersInRange(k)[1]]
        /\ \E o \in DOMAIN ballot.options :
              ballot.votes[k].choice = ballot.options[o]

\* C22 witness: single-choice votes were parsed from an above-range
\* integer, a below-range integer and a response without an integer.
C22_Witness ==
    /\ ballot.cfg.method = "majority"
    /\ Len(ballot.options) = 2
    /\ Len(ballot.votes) >= 3
    /\ ballot.responses[1] = <<Num(7), Num(2)>>
    /\ ballot.votes[1].choice = Str("blue")
    /\ ballot.responses[2] = <<Num(0)>>
    /\ ballot.votes[2].choice = Str("red")
    /\ ballot.responses[3] = <<Word>>
    /\ ballot.votes[3].choice = Str("red")

\* the summed weight of the votes for an option: 1 per vote, or the
\* configured weight of its voter
RECURSIVE SummedWeight(_, _)
SummedWeight(option, n) ==
    IF n = 0 THEN 0
    ELSE SummedWeight(option, n - 1)
            + (IF ballot.votes[n].choice # option THEN 0
               ELSE IF ballot.cfg.weights = <<>> THEN 1
               ELSE IF n \in DOMAIN ballot.cfg.weights[1]
               THEN ballot.cfg.weights[1][n]
               ELSE 1)

OptionWeight(o) == SummedWeight(ballot.options[o], Len(ballot.votes))

\* the options with the highest summed weight
HeaviestOptions ==
    {o \in DOMAIN ballot.options :
        \A p \in DOMAIN ballot.options : OptionWeight(p) <= OptionWeight(o)}

\* the position of the first vote for an option
FirstVoteFor(o) ==
    CHOOSE k \in DOMAIN ballot.votes :
        /\ ballot.votes[k].choice = ballot.options[o]
        /\ \A j \in 1..(k - 1) : ballot.votes[j].choice # ballot.options[o]

\* C23: under the majority method the reported winner is an option whose
\* summed weight (1 per vote when no weights are configured) is the
\* maximum over all options, the reported count is that maximum, and among
\* the options tied for the maximum the winner is the first one
\* encountered in the votes.
C23_MajorityWinnerIsFirstHeaviest ==
    (ballot.pc = "tallied" /\ ballot.cfg.method = "majority") =>
        \E w \in HeaviestOptions :
            /\ ballot.result[1].winner = ballot.options[w]
            /\ ballot.result[1].votes = OptionWeight(w)
            /\ OptionWeight(w) > 0 =>
                  \A o \in HeaviestOptions : FirstVoteFor(w) <= FirstVoteFor(o)

\* C23 witness: a weighted majority tally with two options tied for the
\* maximum, won by the one voted for first, which is not the first option.
C23_Witness ==
    /\ ballot.pc = "tallied"
    /\ ballot.cfg.method = "majority"
    /\ ballot.cfg.weights # <<>>
    /\ Cardinality(HeaviestOptions) = 2
    /\ OptionWeight(1) = 3
    /\ ballot.votes[1].choice = Str("blue")
    /\ ballot.result[1].winner = Str("blue")
    /\ ballot.result[1].votes = 3

\* the ballots are [3,1,2] twice, [1,2,3] twice and [2,3,1] once, in any
\* order of the voters, on three options, tallied by instant runoff
RankedExample ==
    LET times(r) == Cardinality({k \in DOMAIN ballot.responses :
                                    ballot.responses[k] = r})
    IN  /\ ballot.pc = "tallied"
        /\ ballot.cfg.method = "ranked"
        /\ Len(ballot.options) = 3
        /\ Len(ballot.responses) = 5
        /\ times(<<Num(3), Num(1), Num(2)>>) = 2
        /\ times(<<Num(1), Num(2), Num(3)>>) = 2
        /\ times(<<Num(2), Num(3), Num(1)>>) = 1

\* C24: the instant-runoff tally on three options and the five ballots
\* [3,1,2] x2, [1,2,3] x2, [2,3,1] x1: option 3 is eliminated, its ballots
\* transfer, and option 1 wins the runoff with 3 of 5 votes.
C24_Option1WinsRunoff ==
    RankedExample =>
        ballot.result[1] = [method |-> "ranked", winner |-> ballot.options[1],
                            votes |-> 3, total |-> 5, runoff |-> TRUE]

\* C24 as the code has it: option 2, the one with a single first choice,
\* is eliminated, its ballot transfers to option 3, and option 3 wins the
\* runoff with 3 of 5 votes.
C24_Option3WinsRunoff ==
    RankedExample =>
        ballot.result[1] = [method |-> "ranked", winner |-> ballot.options[3],
                            votes |-> 3, total |-> 5, runoff |-> TRUE]

\* C24 witness: the five ballots were cast, the last of them [2,3,1], and
\* the runoff was tallied.
C24_Witness ==
    /\ RankedExample
    /\ ballot.votes[5].rank = <<<<1, 2, 0>>>>
    /\ ballot.result[1].runoff

----------------------------------------------------------------------------
\* Claims about the shared context (checked under ContextSpec)

\* two snapshots are equal in data, history and agentMessages; data and
\* agentMessages are objects, equal when they hold the same entries
SameEntries(o1, o2) ==
    {o1[i] : i \in DOMAIN o1} = {o2[i] : i \in DOMAIN o2}

SameSnapshot(s1, s2) ==
    /\ SameEntries(s1.data, s2.data)
    /\ s1.history = s2.history
    /\ SameEntries(s1.agentMessages, s2.agentMessages)

\* C25: context round trip: for any two contexts in any reachable state
\* and with any maxHistoryLength, after ctx2.restore(ctx1.snapshot()) the
\* value ctx2.snapshot() equals ctx1.snapshot() in data, history and
\* agentMessages.
C25_RestoreThenSnapshot ==
    ctx.lastOp.name = "restore" =>
        SameSnapshot(snapshot(ctx.slots[ctx.lastOp.target]), ctx.snap[1])

\* C25 witness: a snapshot of the first context, holding data, agent
\* messages and a history longer than the second context's limit, was
\* restored into the second context.
C25_Witness ==
    /\ ctx.lastOp = [name |-> "restore", target |-> 2]
    /\ ctx.slots[2].maxHistory = 1
    /\ Len(ctx.snap[1].history) >= 3
    /\ ctx.snap[1].data # <<>>
    /\ ctx.snap[1].agentMessages # <<>>
    /\ SameSnapshot(ctx.snap[1], snapshot(ctx.slots[1]))

\* what a caller can observe of a context: get and keys, getHistory,
\* getAgentMessages and getAgentIds
Observations(c) ==
    [data |-> c.data, history |-> c.history, agentMessages |-> c.agentMessages]

\* a step that applies set, delete, clear, addMessage or restore to one of
\* the two contexts leaves the observations of the other one as they were
OtherContextUntouched ==
    (/\ ctx.cloned
     /\ ctx'.ops = ctx.ops + 1
     /\ ctx'.lastOp.name \in {"set", "delete", "clear", "addMessage",
                              "restore"}) =>
        Observations(ctx'.slots[Other(ctx'.lastOp.target)])
            = Observations(ctx.slots[Other(ctx'.lastOp.target)])

LastOf(list, n) ==
    IF Len(list) <= n THEN list ELSE SubSeq(list, Len(list) - n + 1, Len(list))

\* C27: history trim: after addMessage on a context with maxHistoryLength
\* m, whatever its initial history or restored state, the history holds at
\* most m messages, and they are the most recently appended ones in
\* insertion order.
C27_HistoryWithinLimit ==
    ctx.lastOp.name = "addMessage" =>
        LET c == ctx.slots[ctx.lastOp.target]
        IN  /\ Len(c.history) <= c.maxHistory
            /\ c.history = LastOf(c.log, c.maxHistory)

\* the trace of the EnsembleResult that ensemble.run returned
ReturnedEnsembleTrace == ensemble.steps

\* ensemble.run returned from a run of the sequential conductor
SequentialEnsembleReturned ==
    /\ config.strategy = "sequential"
    /\ ensemble.hooks = "ensemble"
    /\ cpc = "returned"

\* C30: for ensemble.run with the sequential strategy over n agents that
\* all succeed, the returned trace has exactly n steps, steps[i].index is i
\* (counted from zero), steps[i].agentId is the i-th agent of the order, and
\* every step carries an output.
C30_SequentialEnsembleTrace ==
    SequentialEnsembleReturned =>
        LET order == ExecutionOrder(config)
            steps == ReturnedEnsembleTrace
        IN  /\ Len(steps) = Len(order)
            /\ \A i \in DOMAIN steps :
                 /\ steps[i].index = i - 1
                 /\ steps[i].agentId = order[i]
                 /\ steps[i].output # Null
                 /\ ~steps[i].error

\* C30 witness: ensemble.run over agents [a, b, c] without a configured
\* order returned; its trace has three steps, of a, b and c.
C30_Witness ==
    /\ SequentialEnsembleReturned
    /\ config.order = <<>>
    /\ Len(ReturnedEnsembleTrace) = 3
    /\ [i \in 1..3 |-> ReturnedEnsembleTrace[i].agentId] = <<"a", "b", "c">>

\* the value of a property of a serialized object, Undef when it has none
Field(json, key) ==
    IF \E i \in DOMAIN json : json[i][1] = key
    THEN json[CHOOSE i \in DOMAIN json : json[i][1] = key][2]
    ELSE Undef

\* a serialized result that reports failure: success is false, and either
\* rejected is true or there is an error
ReportsFailure(json) ==
    /\ Field(json, "success") = JBool(FALSE)
    /\ \/ Field(json, "rejected") = JBool(TRUE)
       \/ Field(json, "error") # Undef

\* the target named by the error of a result, if it names one
NamesTarget(json, target_agent) ==
    LET e == Field(json, "error")
    IN  Len(e) = 4 /\ e[2] = target_agent

\* C28: if target_agent is not in the tool's declared target list, the tool
\* returns a JSON object with success:false (rejected:true, or an error
\* naming the invalid target) and the handler is never invoked; and for
\* every handler outcome (accepted, rejected, exception) the tool returns a
\* serialized result instead of throwing.
C28_HandoffToolAlwaysAnswers ==
    \A k \in DOMAIN handoff.calls :
        LET call == handoff.calls[k]
            declared == \E i \in DOMAIN handoff.targets :
                            handoff.targets[i] = call.target_agent
        IN  /\ ~call.threw
            /\ Field(call.returned, "success") \in {JBool(TRUE), JBool(FALSE)}
            /\ ~declared =>
                  /\ ~call.handlerCalled
                  /\ ReportsFailure(call.returned)
                  /\ \/ Field(call.returned, "rejected") = JBool(TRUE)
                     \/ NamesTarget(call.returned, call.target_agent)
            /\ (call.handlerCalled /\ call.outcome[1].kind # "accepted") =>
                  ReportsFailure(call.returned)
            /\ Field(call.returned, "success") = JBool(TRUE) =>
                  /\ call.handlerCalled
                  /\ call.outcome[1].kind = "accepted"
                  /\ call.outcome[1].data # Circular

\* C28 witness: the tool with targets [b] was called for c, which it
\* answered without the handler, and then for b, whose handler threw.
C28_Witness ==
    /\ handoff.targets = <<"b">>
    /\ Len(handoff.calls) = 2
    /\ handoff.calls[1].target_agent = "c"
    /\ ~handoff.calls[1].handlerCalled
    /\ handoff.calls[2].handlerCalled
    /\ handoff.calls[2].outcome[1].kind = "throws"
    /\ Field(handoff.calls[2].returned, "error") = Str("undefined")

\* jumps made by the call of the chain: every run but the first one
\* follows a jump
Jumps == IF chain.handoffs = <<>> THEN 0 ELSE Len(chain.handoffs) - 1

\* the default cap on jumps: the chain length times two
JumpCap == 2 * Len(chain.agents)

\* C29: the handoff chain bounds the number of jumps (default cap: chain
\* length x 2) and fails with max-delegations when the cap is exceeded, so
\* the chain terminates for every shouldHandoff function, including one
\* that always names its own id or that cycles between two agents: no call
\* of the chain ever makes more jumps than the cap.
C29_JumpsWithinCap == Jumps <= JumpCap

----------------------------------------------------------------------------
\* Claims about error handling, hooks and the ensemble trace

\* private retryCount = 3 of the ConductorBuilder
DEFAULT_RETRY_COUNT == 3

\* the steps of the trace that ran the given agent
StepsOfAgent(id) == {i \in DOMAIN trace : trace[i].agentId = id}

\* the agent's own failure ended the step (no hook threw after its output)
AgentFailedStep(i) == trace[i].status = "error" /\ trace[i].output = Null

\* C31: with errorMode retry, a failing agent step is re-run up to
\* retryCount (default 3) times, and only when every attempt has failed
\* does the run behave as fail-fast; a step that succeeds on a retry lets
\* the run continue normally. So once a run with errorMode retry that was
\* not cancelled has settled, an agent whose step failed was run again: it
\* has between 2 and 1 + retryCount steps, and if the run returned, the
\* last of them succeeded.
C31_FailedStepIsRetried ==
    (/\ config.strategy = "parallel"
     /\ config.errorMode = "retry"
     /\ ~signal
     /\ cpc \in {"returned", "failed"}) =>
        \A i \in DOMAIN trace :
            AgentFailedStep(i) =>
                LET steps == StepsOfAgent(trace[i].agentId)
                    last == CHOOSE k \in steps : \A j \in steps : j <= k
                IN  /\ Cardinality(steps) >= 2
                    /\ Cardinality(steps) <= 1 + DEFAULT_RETRY_COUNT
                    /\ cpc = "returned" => trace[last].status = "output"

\* the input that run was called with
RunInput == messages[2].content

\* the input is longer than the agent's maxInputLength allows
InputTooLong ==
    /\ pc # "idle"
    /\ validateInput(RunInput, maxInputLength).error
           = "Input exceeds maximum length"

\* C32: agent run validates its input before anything else: an input
\* longer than maxInputLength (default 100000 characters) makes run fail
\* with invalid-input, with no backend call made: the run of a too long
\* input never reaches the backend and never returns a result.
C32_LongInputNeverReachesBackend ==
    InputTooLong =>
        /\ generateCalls = 0
        /\ pc \notin {"generate", "returned"}

\* a call of the registered tool whose arguments do not fit its parameters
ArgumentsInvalid ==
    /\ toolcall.pc # "idle"
    /\ toolcall.call.name = "get_weather"
    /\ ~validateJsonSchema(toolcall.call.arguments, ToolParameters).valid

\* tool.execute was invoked for the call
ExecuteInvoked == \E i \in DOMAIN toolcall.events : toolcall.events[i] = "execute"

\* C33: before the agent loop invokes a tool's execute, the call's
\* arguments are validated against the tool's parameters schema; when
\* validation fails (e.g. a required field is missing), a tool-message
\* error is returned to the model for that call and execute is not called.
C33_InvalidArgumentsNotExecuted ==
    ArgumentsInvalid =>
        /\ ~ExecuteInvoked
        /\ toolcall.pc = "done" =>
              IsJsonErrorObject(toolcall.message[1].content)

\* tool.execute resolved for the call and executeToolCall has returned
ToolCallSucceeded == toolcall.pc = "done" /\ toolcall.result # <<>>

\* C34: an exception thrown by a hook does not mask the operation's
\* outcome: if onBeforeToolCall or onAfterToolCall throws, a tool call that
\* succeeded still yields its result (not an error object) as the tool
\* message.
C34_HookFailureKeepsToolResult ==
    ToolCallSucceeded =>
        toolcall.message[1] =
            ToolCallReturns(toolcall.call.id, toolcall.result[1])

\* the error string of the tool message, when its content is an error object
ToolMessageError == toolcall.message[1].content[3]

\* a name=value part with a secret name whose value shows, or a path below
\* /home or /Users whose user shows
ShowsSecret(message) ==
    \E i \in DOMAIN message :
        \/ /\ message[i][1] = "assign"
           /\ IsSecretName(message[i][2])
           /\ message[i][3] # "***"
        \/ /\ message[i][1] = "path"
           /\ message[i][2] \in {"home", "Users"}
           /\ message[i][3] # "***"

\* C35: every error message that reaches a caller or the model has passed
\* through the sanitizer, so that an underlying message containing
\* token=VALUE or /home/USER is only ever observed as token=*** or
\* /home/***: the error string serialized into a tool message is the
\* sanitized message of what was thrown, and shows no secret.
C35_ToolMessageErrorsSanitized ==
    (toolcall.pc = "done" /\ toolcall.thrown # <<>>) =>
        /\ ToolMessageError = sanitizeError(toolcall.thrown[1])
        /\ ~ShowsSecret(ToolMessageError)

\* the runs made through the hooks of ensemble.run
EnsembleRun == ensemble.hooks = "ensemble"

\* the step of the ensemble trace that the i-th agent invocation pushed
StepOfInvocation(i) == ensemble.steps[i]

\* C36: in the trace returned by ensemble.run, each agent-after and
\* agent-error event completes the step of the invocation that produced
\* it: for every sequence of agent invocations in a run, including the same
\* agent id being run again after an earlier invocation of it failed, no
\* step ends with both output and error, and no invocation that has
\* settled leaves its step with neither.
C36_EventsCompleteTheirOwnStep ==
    EnsembleRun =>
        \A i \in DOMAIN trace :
            /\ ~(StepOfInvocation(i).output # Null /\ StepOfInvocation(i).error)
            /\ trace[i].status # "running" =>
                  (StepOfInvocation(i).output # Null \/ StepOfInvocation(i).error)

\* the last operation made the second context as the clone of the first
JustCloned == ctx.lastOp.name = "clone"

\* C37: clone fidelity: immediately after c = ctx.clone(), c.snapshot()
\* equals ctx.snapshot() in data, history and agentMessages, for every
\* reachable state of ctx, including agents that hold more than one
\* message.
C37_CloneEqualsOriginal ==
    JustCloned =>
        SameSnapshot(snapshot(ctx.slots[ctx.lastOp.target]),
                     snapshot(ctx.slots[Other(ctx.lastOp.target)]))

\* C38: ensemble usage accounts for every agent invocation of the run: it
\* equals the element-wise sum of the usage of every successfully completed
\* agent step, including repeated invocations of the same agent id (debate
\* rounds, repeated delegation to one worker, option proposal followed by
\* the vote of the same voter).
C38_UsageCountsEveryStep ==
    ensembleUsage # <<>> => ensembleUsage[1] = SumOfLog(usageSteps)

\* how many times an event was fired on the hooks of config.hooks
FiredOnConfig(event) == Len(SelectSeq(configHooks, LAMBDA e : e = event))

\* the steps of the run that have settled
SettledSteps == {i \in DOMAIN trace : trace[i].status # "running"}

\* C39: per-agent hooks registered on the conductor itself (config.hooks)
\* are fired for every agent step of a run of that conductor:
\* onBeforeAgent before the agent is called, then exactly one of
\* onAfterAgent or onAgentError, just as for hooks passed in the run
\* options.
C39_ConfigHooksSeeEveryStep ==
    /\ FiredOnConfig("onBeforeAgent") = Len(trace)
    /\ FiredOnConfig("onAfterAgent")
           + FiredOnConfig("onAgentError") = Cardinality(SettledSteps)

\* C40: the ranked (instant-runoff) tally terminates for every option list
\* of at least two options and every set of ballots (including empty
\* ballots, ballots ranking only some options, options that receive no
\* first-choice vote, and an option that is the empty string), and it names
\* a winner drawn from the option list.
C40_RankedTallyTerminates ==
    /\ ballot.pc # "tallying"
    /\ (ballot.pc = "tallied" /\ ballot.cfg.method = "ranked") =>
          \E o \in DOMAIN ballot.options :
              ballot.result[1].winner = ballot.options[o]

====
